---- MODULE Spec2Model ----
(***************************************************************************)
(* Verification model of the lesgoski flight-deal engine.                  *)
(*                                                                         *)
(* The persistent store is a SQLite database reached through SQLAlchemy    *)
(* sessions (autocommit=False, autoflush=False).  `db` is the committed    *)
(* content.  SQLite admits one writer: a session that has executed its     *)
(* first INSERT/UPDATE/DELETE holds the write lock until it commits or     *)
(* rolls back; `lock` names that session and `wdb` is its uncommitted      *)
(* working copy.  Every other session reads the committed content.         *)
(* `task` holds the sessions that run update_single_profile and `queue`    *)
(* the profiles submitted to the scheduler's thread pool and not started.  *)
(*                                                                         *)
(* Instants of the wall clock (updated_at, scanned_at, match_start) are    *)
(* integers counted in ticks.  Flight departure and arrival instants are   *)
(* hours counted from Monday 00:00; the code never compares the two.       *)
(* Prices are integer cents.                                               *)
(*                                                                         *)
(* Specifications: Spec, two profiles sharing an origin, the scheduler and *)
(* the web application; SpecH, one profile with two origins that its owner *)
(* may delete; SpecS and SpecSFair, the thread pool with more due profiles *)
(* than workers; SpecP, prune_stale_data statement by statement; SpecU,    *)
(* SpecM, SpecN and SpecW, the upsert and the matchers on their own;       *)
(* SpecD, the daily digest; SpecA, the metro-area index; SpecF, the        *)
(* profile form; SpecB, broskis and shared profiles.                       *)
(***************************************************************************)
EXTENDS Integers, FiniteSets, Sequences, TLC

VARIABLES now, db, wdb, lock, task, queue

vars == <<now, db, wdb, lock, task, queue>>

(***************************************************************************)
(* Bounds of the model.                                                    *)
(***************************************************************************)
\* last clock tick explored
MaxTime == 3
\* SCAN_COOLDOWN_MINUTES counted in ticks
CooldownTicks == 2
\* UPDATE_INTERVAL_MINUTES counted in ticks
UpdateIntervalTicks == 1
\* FLIGHT_STALENESS_HOURS counted in ticks
StalenessTicks == 2

(***************************************************************************)
(* Program constants.                                                      *)
(***************************************************************************)
HOUR_TOLERANCE == 1

MAX_WORKERS == 3

None == "None"

(***************************************************************************)
(* Profiles.  P1 is owned by a user with an ntfy topic; P2 has no owner    *)
(* (user_id NULL) and the global NTFY_TOPIC is empty.  P3 is a solo        *)
(* traveller's profile with two home airports.  Q1..Q4 are rows without    *)
(* origins, strategy and owner.                                            *)
(***************************************************************************)
Profiles == DOMAIN db.profiles

\* rows come back in rowid order
ProfileOrder == <<"P1", "P2", "P3", "Q1", "Q2", "Q3", "Q4">>

\* the profiles the matcher is run for on its own
MatchProfiles == {"M1", "M2", "M3", "M4", "M5", "M6"}

\* the profiles the two-pass matcher is run for: N1 has no owner, the
\* owner of N2 excludes BCN, the owner of N3 excludes LIS
NearProfiles == {"N1", "N2", "N3"}

\* profiles whose outbound window on Friday is (0, 0) and (0, 24)
WindowProfiles == {"W1", "W2"}

origins(p) ==
    IF p \in {"P1", "P2"} \cup MatchProfiles \cup NearProfiles \cup WindowProfiles
    THEN <<"PSA">>
    ELSE IF p = "P3" THEN <<"PSA", "BLQ">>
    ELSE <<>>

adults(p) == IF p \in {"P1", "P2", "M3"} THEN 2 ELSE 1

\* max_price, in cents per person
max_price(p) ==
    IF p = "M3" THEN 2000
    ELSE IF p \in MatchProfiles \cup NearProfiles \cup WindowProfiles THEN 4000
    ELSE 5000

allowed_destinations(p) == IF p = "M2" THEN {"BCN"} ELSE {}

notify_destinations(p) == IF p \in {"P1", "P3"} THEN {"BCN"} ELSE {}

\* the _strategy_object column is filled
has_strategy(p) ==
    p \in {"P1", "P2", "P3"} \cup MatchProfiles \cup NearProfiles
         \cup WindowProfiles

\* Friday 07-10 out, Friday 11-14 back, 0..1 nights; M4 and M5 leave at
\* any hour of Friday and come back on Friday 11-14 or at any hour of
\* Saturday, M4 on the same date and M5 after one night; M6 has no
\* outbound day; W1 and W2 leave on Friday inside (0, 0) and (0, 24) and
\* come back at any hour of Saturday
strategy_object(p) ==
    IF p \in WindowProfiles
    THEN [out_days |-> [d \in {4} |-> IF p = "W1" THEN <<0, 0>> ELSE <<0, 24>>],
          in_days |-> [d \in {5} |-> <<0, 24>>],
          min_nights |-> 1,
          max_nights |-> 1]
    ELSE IF p \in {"M4", "M5"}
    THEN [out_days |-> [d \in {4} |-> <<0, 24>>],
          in_days |-> [d \in {4, 5} |-> IF d = 4 THEN <<11, 14>> ELSE <<0, 24>>],
          min_nights |-> IF p = "M4" THEN 0 ELSE 1,
          max_nights |-> IF p = "M4" THEN 0 ELSE 1]
    ELSE IF p = "M6"
    THEN [out_days |-> [d \in {} |-> <<0, 0>>],
          in_days |-> [d \in {4} |-> <<11, 14>>],
          min_nights |-> 0,
          max_nights |-> 1]
    ELSE [out_days |-> [d \in {4} |-> <<7, 10>>],
          in_days |-> [d \in {4} |-> <<11, 14>>],
          min_nights |-> 0,
          max_nights |-> 1]

\* notifier._get_ntfy_url: per-user topic first, global fallback
get_ntfy_url(p) == IF p \in {"P1", "P3", "D2", "D3"} THEN "ntfy" ELSE None

\* P1 belongs to a user, who may ask for an update of it
HasOwner(p) == p \in {"P1", "P3", "N2", "N3", "D1", "D2", "D3"}

\* an exclusion list that always reads as empty
excluded_destinations_empty(p) == {}

\* profile.user.excluded_destinations; [] when the column is empty
excluded_destinations(p) ==
    IF p = "N2" THEN {"BCN"} ELSE IF p = "N3" THEN {"LIS"} ELSE {}

(***************************************************************************)
(* The upstream fare source: the legs it may offer.                        *)
(***************************************************************************)
Offers ==
    { [origin |-> "PSA", destination |-> "BCN", departure_time |-> 104,
       arrival_time |-> x[1], price |-> x[2], adults |-> 2,
       flight_number |-> "FR104"] :
         x \in {<<106, 2000>>, <<106, 4000>>, <<109, 2000>>} }
    \cup
    { [origin |-> "BCN", destination |-> "PSA", departure_time |-> 108,
       arrival_time |-> 110, price |-> 3000, adults |-> 2,
       flight_number |-> "FR108"] }
    \cup
    { [origin |-> x[1], destination |-> x[2], departure_time |-> x[3],
       arrival_time |-> x[3] + 2, price |-> x[4], adults |-> 1,
       flight_number |-> x[5]] :
         x \in {<<"PSA", "BCN", 104, 2000, "FR104">>,
                <<"PSA", "MAD", 105, 2500, "FR105">>,
                <<"BLQ", "BCN", 104, 1500, "FR204">>,
                <<"BCN", "PSA", 108, 3000, "FR108">>,
                <<"MAD", "PSA", 109, 2000, "FR109">>,
                <<"BCN", "BLQ", 108, 1000, "FR208">>} }

\* datetime.isoformat: the text of an instant, one text per instant
isoformat(h) == ToString(h)

\* hashlib.md5(raw).hexdigest(): the digest stands for the text it was
\* computed from (no two texts of the model collide)
md5(raw) == raw

\* a fingerprint that leaves the party size out
unique_id_without_adults(f) ==
    md5(f.origin \o "_" \o f.destination \o "_" \o isoformat(f.departure_time))

\* FlightSchema.unique_id: md5 of "origin_destination_departure_adults"
unique_id(f) ==
    md5(f.origin \o "_" \o f.destination \o "_"
          \o isoformat(f.departure_time) \o "_" \o ToString(f.adults))

\* the answers get_cheapest_flights may give: the cheapest leg of every
\* route the source serves from the airport (to the destination, if given)
ApiResults(origin, num_adults, dest) ==
    LET served == { f \in Offers : /\ f.origin = origin
                                   /\ f.adults = num_adults
                                   /\ (dest = None \/ f.destination = dest) }
    IN { r \in SUBSET served :
           /\ \A f \in served : \E g \in r : unique_id(g) = unique_id(f)
           /\ \A f, g \in r : unique_id(f) = unique_id(g) => f = g }

(***************************************************************************)
(* Sessions.  Every orchestration runs in a session of its own            *)
(* (_update_profile_thread, run_background_update); the initial state of   *)
(* a specification fixes how many the model follows at a time.  `by`       *)
(* tells who started the session.                                          *)
(***************************************************************************)
Tasks == DOMAIN task

SlotOrder == <<"A", "B", "C", "D">>

IdleTask ==
    [pc |-> "idle", by |-> None, pid |-> None, threshold |-> 0, todo |-> <<>>,
     origin |-> None, dests |-> {}, match_start |-> 0, pending |-> {},
     pushed |-> {}, failed_posts |-> {}, error |-> None, queries |-> <<>>,
     api_flights |-> {}, radius |-> 0, num_matches |-> 0]

\* what session t reads
View(t) == IF lock = t THEN wdb ELSE db

\* SQLite grants the write lock to one session at a time
CanWrite(t) == lock \in {None, t}

(***************************************************************************)
(* Flight store.                                                           *)
(***************************************************************************)
Row(f, t) ==
    [id |-> unique_id(f), origin |-> f.origin, destination |-> f.destination,
     departure_time |-> f.departure_time, arrival_time |-> f.arrival_time,
     price |-> f.price, adults |-> f.adults,
     flight_number |-> f.flight_number, updated_at |-> t]

\* an INSERT with no ON CONFLICT clause, on a table with no key
upsert_row_insert_only(flights, r) == flights \cup {r}

\* INSERT ... ON CONFLICT (id) DO UPDATE SET price, updated_at,
\* departure_time, arrival_time
upsert_row(flights, r) ==
    IF \E e \in flights : e.id = r.id
    THEN { IF e.id = r.id
           THEN [e EXCEPT !.price = r.price, !.updated_at = r.updated_at,
                          !.departure_time = r.departure_time,
                          !.arrival_time = r.arrival_time]
           ELSE e : e \in flights }
    ELSE flights \cup {r}

\* INSERT OR REPLACE: every incoming row takes the place of the stored one
bulk_upsert_replace(flights, api_flights, t) ==
    { e \in flights : \A f \in api_flights : unique_id(f) # e.id }
    \cup { Row(f, t) : f \in api_flights }

\* FlightScanner._bulk_upsert; a batch holds one leg per fingerprint
bulk_upsert(flights, api_flights, t) ==
    { e \in flights : \A f \in api_flights : unique_id(f) # e.id }
    \cup
    UNION { upsert_row({ e \in flights : e.id = unique_id(f) }, Row(f, t)) :
            f \in api_flights }

(***************************************************************************)
(* Initial state: an empty store and two profiles created long ago.        *)
(* SearchProfile.updated_at is NULL until the first stamp: never_updated   *)
(* tells so, and updated_at then carries no value.                         *)
(***************************************************************************)
InitDb ==
    [flights |-> {}, deals |-> {}, scan_log |-> {},
     profiles |-> [p \in {"P1", "P2"} |->
                     [is_active |-> TRUE,
                      never_updated |-> FALSE,
                      updated_at |-> 0 - UpdateIntervalTicks - 1]]]

Init ==
    /\ now = 0
    /\ db = InitDb
    /\ wdb = InitDb
    /\ lock = None
    /\ task = [t \in {"A", "B"} |-> IdleTask]
    /\ queue = <<>>

(***************************************************************************)
(* The clock.  A tick is a quarter of an hour or so: an orchestration is   *)
(* shorter, so ticks pass between orchestrations; inside one, the clock    *)
(* is seen to move where the matcher reads it (see Match).                 *)
(***************************************************************************)
Tick ==
    /\ now < MaxTime
    /\ \A t \in Tasks : task[t].pc = "idle"
    /\ now' = now + 1
    /\ UNCHANGED <<db, wdb, lock, task, queue>>

(***************************************************************************)
(* Session bookkeeping.                                                    *)
(***************************************************************************)
\* the session executes a write statement: it takes (or keeps) the lock
Write(t, newdb) ==
    /\ CanWrite(t)
    /\ lock' = t
    /\ wdb' = newdb

\* an exception that ends every running orchestration, not only its own
Raise_all(t, err) ==
    /\ task' = [u \in Tasks |->
                  IF task[u].pc \in {"idle", "failed"} /\ u # t
                  THEN task[u]
                  ELSE [task[u] EXCEPT !.pc = "failed", !.error = err]]
    /\ UNCHANGED <<now, db, wdb, lock, queue>>

\* an exception leaves the try block of update_single_profile
Raise(t, err) ==
    /\ task' = [task EXCEPT ![t].pc = "failed", ![t].error = err]
    /\ UNCHANGED <<now, db, wdb, lock, queue>>

\* update_single_profile returns and the session is closed
Finished == IdleTask

(***************************************************************************)
(* scheduler/runner.py check_and_run_updates: one task per due profile.    *)
(***************************************************************************)
\* the test of check_and_run_updates with <= in place of <
IsDue_inclusive(p, t) ==
    /\ db.profiles[p].is_active
    /\ \/ db.profiles[p].never_updated
       \/ db.profiles[p].updated_at <= t - UpdateIntervalTicks

\* is_active, and not profile.updated_at or profile.updated_at < threshold
IsDue(p, t) ==
    /\ db.profiles[p].is_active
    /\ \/ db.profiles[p].never_updated
       \/ db.profiles[p].updated_at < t - UpdateIntervalTicks

due_profiles == { p \in Profiles : IsDue(p, now) }

StartTask(p, who) == [IdleTask EXCEPT !.pc = "load", !.pid = p, !.by = who]

\* the worker threads of the pool that are running a task
Running(tasks) == { t \in DOMAIN tasks : tasks[t].by = "scheduler" }

\* a scheduler that does not wait for the tasks it submitted
SchedulerBusy_never == FALSE

\* the scheduler thread is inside check_and_run_updates until every task
\* it submitted has finished
SchedulerBusy == queue # <<>> \/ Running(task) # {}

IdleTasks == { t \in Tasks : task[t].pc = "idle" }

\* the sessions are interchangeable: a new one takes the first free place
FirstIdle(tasks) ==
    LET k == CHOOSE k \in 1..Len(SlotOrder) :
                /\ SlotOrder[k] \in DOMAIN tasks
                /\ tasks[SlotOrder[k]].pc = "idle"
                /\ \A j \in 1..(k - 1) :
                      ~ (SlotOrder[j] \in DOMAIN tasks
                           /\ tasks[SlotOrder[j]].pc = "idle")
    IN SlotOrder[k]

FreeTask == FirstIdle(task)

\* ThreadPoolExecutor(max_workers=MAX_WORKERS): a submitted task starts in
\* a thread of its own, with a session of its own, while fewer than
\* MAX_WORKERS threads are busy; the others wait in the queue
\* a pool that starts a thread for every submitted task
RECURSIVE start_workers_no_cap(_, _)
start_workers_no_cap(tasks, q) ==
    IF \/ q = <<>>
       \/ \A t \in DOMAIN tasks : tasks[t].pc # "idle"
    THEN [tasks |-> tasks, queue |-> q]
    ELSE start_workers_no_cap(
           [tasks EXCEPT ![FirstIdle(tasks)] = StartTask(Head(q), "scheduler")],
           Tail(q))

RECURSIVE start_workers(_, _)
start_workers(tasks, q) ==
    IF \/ q = <<>>
       \/ Cardinality(Running(tasks)) >= MAX_WORKERS
       \/ \A t \in DOMAIN tasks : tasks[t].pc # "idle"
    THEN [tasks |-> tasks, queue |-> q]
    ELSE start_workers(
           [tasks EXCEPT ![FirstIdle(tasks)] = StartTask(Head(q), "scheduler")],
           Tail(q))

\* a dispatch whose pool starts every submitted task at once
check_and_run_updates_unbounded ==
    /\ ~ SchedulerBusy
    /\ due_profiles # {}
    /\ LET is_due(p) == p \in due_profiles
           started == start_workers_no_cap(task, SelectSeq(ProfileOrder, is_due))
       IN /\ task' = started.tasks
          /\ queue' = started.queue
    /\ UNCHANGED <<now, db, wdb, lock>>

\* the scheduler submits the due profiles, in the order of its query
check_and_run_updates ==
    /\ ~ SchedulerBusy
    /\ due_profiles # {}
    /\ LET is_due(p) == p \in due_profiles
           started == start_workers(task, SelectSeq(ProfileOrder, is_due))
       IN /\ task' = started.tasks
          /\ queue' = started.queue
    /\ UNCHANGED <<now, db, wdb, lock>>

\* a worker thread that has finished a task takes the next of the queue
WorkerStart ==
    /\ queue # <<>>
    /\ LET started == start_workers(task, queue)
       IN /\ started.queue # queue
          /\ task' = started.tasks
          /\ queue' = started.queue
    /\ UNCHANGED <<now, db, wdb, lock>>

\* webapp/app.py run_background_update, from save_profile or
\* trigger_manual_update; only a user with access to the profile gets here
run_background_update(p) ==
    /\ HasOwner(p)
    /\ IdleTasks # {}
    /\ task' = [task EXCEPT ![FreeTask] = StartTask(p, "web")]
    /\ UNCHANGED <<now, db, wdb, lock, queue>>

(***************************************************************************)
(* services/orchestrator.py update_single_profile, step by step.           *)
(***************************************************************************)
\* after the last origin the scanner returns and the notifier runs, the
\* matcher being left out
AfterOrigin_skips_matcher(rest) == IF rest = <<>> THEN "notify" ELSE "scan"

\* the for loop over origins goes on, or the scanner returns and the
\* matcher runs
AfterOrigin(rest) == IF rest = <<>> THEN "match" ELSE "scan"


\* the load of update_single_profile without the test of is_active
LoadProfile_ignores_inactive(t) ==
    /\ task[t].pc = "load"
    /\ IF task[t].pid \notin DOMAIN View(t).profiles
       THEN task' = [task EXCEPT ![t] = Finished]
       ELSE task' = [task EXCEPT ![t].pc = AfterOrigin(origins(task[t].pid)),
                                 ![t].todo = origins(task[t].pid),
                                 ![t].threshold = now - CooldownTicks]
    /\ UNCHANGED <<now, db, wdb, lock, queue>>

\* db.get(SearchProfile, profile_id); the scanner computes its cooldown
\* threshold once, when it starts
LoadProfile(t) ==
    /\ task[t].pc = "load"
    /\ IF \/ task[t].pid \notin DOMAIN View(t).profiles
          \/ ~ View(t).profiles[task[t].pid].is_active
       THEN task' = [task EXCEPT ![t] = Finished]
       ELSE task' = [task EXCEPT ![t].pc = AfterOrigin(origins(task[t].pid)),
                                 ![t].todo = origins(task[t].pid),
                                 ![t].threshold = now - CooldownTicks]
    /\ UNCHANGED <<now, db, wdb, lock, queue>>

\* the cooldown query of FlightScanner.run with >= in place of >
recently_scanned_inclusive(t, origin) ==
    \E r \in View(t).scan_log :
        /\ r.origin = origin
        /\ r.adults = adults(task[t].pid)
        /\ r.scanned_at >= task[t].threshold

\* the cooldown query of FlightScanner.run, against the threshold the run
\* computed when it started
recently_scanned(t, origin) ==
    \E r \in View(t).scan_log :
        /\ r.origin = origin
        /\ r.adults = adults(task[t].pid)
        /\ r.scanned_at > task[t].threshold

\* FlightScanner.run: next origin, cooldown check
ScanCheck(t) ==
    /\ task[t].pc = "scan"
    /\ IF recently_scanned(t, Head(task[t].todo))
       THEN task' = [task EXCEPT ![t].todo = Tail(@),
                                 ![t].pc = AfterOrigin(Tail(task[t].todo))]
       ELSE task' = [task EXCEPT ![t].pc = "fetch_out",
                                 ![t].origin = Head(task[t].todo)]
    /\ UNCHANGED <<now, db, wdb, lock, queue>>

\* the outbound query of FlightScanner.run without the loop over the
\* destinations it found
FetchOutbound_no_returns(t) ==
    /\ task[t].pc = "fetch_out"
    /\ \E raw_flights \in ApiResults(task[t].origin, adults(task[t].pid), None) :
        /\ IF raw_flights = {}
           THEN UNCHANGED <<wdb, lock>>
           ELSE Write(t, [View(t) EXCEPT
                            !.flights = bulk_upsert(@, raw_flights, now)])
        /\ task' = [task EXCEPT
                      ![t].queries = Append(@, <<task[t].origin, None>>),
                      ![t].pc = "scanlog"]
    /\ UNCHANGED <<now, db, queue>>

\* FlightScanner.run: outbound query origin -> anywhere, then upsert
FetchOutbound(t) ==
    /\ task[t].pc = "fetch_out"
    /\ \E raw_flights \in ApiResults(task[t].origin, adults(task[t].pid), None) :
        /\ IF raw_flights = {}
           THEN UNCHANGED <<wdb, lock>>
           ELSE Write(t, [View(t) EXCEPT
                            !.flights = bulk_upsert(@, raw_flights, now)])
        /\ task' = [task EXCEPT
                      ![t].queries = Append(@, <<task[t].origin, None>>),
                      ![t].dests = { f.destination : f \in raw_flights },
                      ![t].pc = IF raw_flights = {} THEN "scanlog" ELSE "fetch_in"]
    /\ UNCHANGED <<now, db, queue>>

\* FlightScanner.run: return query destination -> origin, then upsert
FetchInbound(t) ==
    /\ task[t].pc = "fetch_in"
    /\ \E dest \in task[t].dests :
       \E raw_inbound \in ApiResults(dest, adults(task[t].pid), task[t].origin) :
        /\ IF raw_inbound = {}
           THEN UNCHANGED <<wdb, lock>>
           ELSE Write(t, [View(t) EXCEPT
                            !.flights = bulk_upsert(@, raw_inbound, now)])
        /\ task' = [task EXCEPT
                      ![t].queries = Append(@, <<dest, task[t].origin>>),
                      ![t].dests = @ \ {dest},
                      ![t].pc = IF task[t].dests = {dest} THEN "scanlog" ELSE "fetch_in"]
    /\ UNCHANGED <<now, db, queue>>

\* get_cheapest_flights raises; FlightScanner.run has no handler
UpstreamError(t) ==
    /\ task[t].pc \in {"fetch_out", "fetch_in"}
    /\ Raise(t, "upstream")

NextId(rows) ==
    IF rows = {} THEN 1
    ELSE 1 + (CHOOSE m \in { r.id : r \in rows } : \A r \in rows : r.id <= m)

\* FlightScanner.run: self.db.add(ScanLog(...)); self.db.flush()
ScanLogAppend(t) ==
    /\ task[t].pc = "scanlog"
    /\ Write(t, [View(t) EXCEPT
                   !.scan_log = @ \cup {[id |-> NextId(@),
                                         origin |-> task[t].origin,
                                         adults |-> adults(task[t].pid),
                                         scanned_at |-> now]}])
    /\ task' = [task EXCEPT ![t].pc = AfterOrigin(Tail(task[t].todo)),
                            ![t].todo = Tail(@),
                            ![t].origin = None]
    /\ UNCHANGED <<now, db, queue>>

(***************************************************************************)
(* services/matcher.py DealMatcher.                                        *)
(***************************************************************************)
Max(a, b) == IF a >= b THEN a ELSE b

Min(a, b) == IF a <= b THEN a ELSE b

\* datetime.date(), .weekday() (0 = Monday) and .hour of an instant in hours
date(h) == h \div 24

weekday(h) == (h \div 24) % 7

hour(h) == h % 24

\* day and time check of _is_valid_match, with tolerance
\* a window check with no tolerance
in_window_exact(days, departure_time) ==
    /\ weekday(departure_time) \in DOMAIN days
    /\ days[weekday(departure_time)][1] <= hour(departure_time)
    /\ hour(departure_time) < days[weekday(departure_time)][2]

in_window(days, departure_time) ==
    /\ weekday(departure_time) \in DOMAIN days
    /\ LET min_h == days[weekday(departure_time)][1]
           max_h == days[weekday(departure_time)][2]
       IN /\ Max(0, min_h - HOUR_TOLERANCE) <= hour(departure_time)
          /\ hour(departure_time) < Min(24, max_h + HOUR_TOLERANCE)

\* a stay measured in elapsed days instead of calendar dates
is_valid_match_elapsed(out_f, in_f, config) ==
    LET nights == (in_f.departure_time - out_f.departure_time) \div 24
    IN /\ config.min_nights <= nights
       /\ nights <= config.max_nights
       /\ in_window(config.out_days, out_f.departure_time)
       /\ in_window(config.in_days, in_f.departure_time)

\* DealMatcher._is_valid_match
is_valid_match(out_f, in_f, config) ==
    LET nights == date(in_f.departure_time) - date(out_f.departure_time)
    IN /\ config.min_nights <= nights
       /\ nights <= config.max_nights
       /\ in_window(config.out_days, out_f.departure_time)
       /\ in_window(config.in_days, in_f.departure_time)

InSeq(x, s) == \E k \in 1..Len(s) : s[k] = x

\* a price filter that forgets the party size
within_budget_per_party(out_f, in_f, p) ==
    4 * (out_f.price + in_f.price) <= 5 * max_price(p)

\* the price filter (out + in) / adults <= max_price * 1.25, kept in
\* integers
within_budget(out_f, in_f, p) ==
    4 * (out_f.price + in_f.price) <= 5 * max_price(p) * adults(p)

\* a matcher that never applies the destination filter
destination_allowed_always(dest, p) == TRUE

\* allowed = profile.allowed_destinations; if allowed: filter
destination_allowed(dest, p) ==
    allowed_destinations(p) # {} => dest \in allowed_destinations(p)

\* the join of DealMatcher.run
candidates(flights, p) ==
    { c \in flights \X flights :
        /\ c[1].destination = c[2].origin
        /\ InSeq(c[1].origin, origins(p))
        /\ c[1].adults = adults(p)
        /\ InSeq(c[2].destination, origins(p))
        /\ c[2].adults = adults(p)
        /\ within_budget(c[1], c[2], p)
        /\ c[2].departure_time > c[1].arrival_time
        /\ destination_allowed(c[1].destination, p) }

\* _create_deal: actual_price_pp = round(out_f.price + in_f.price, 2); both
\* prices are whole cents, so rounding to cents leaves the sum as it is
actual_price_pp(p, out_f, in_f) == out_f.price + in_f.price

\* .first() found no row
NoDeal == [id |-> 0]

\* _create_deal on the session: the change it leaves pending until flush
create_deal(p, out_f, in_f, existing, t) ==
    IF existing.id # 0
    THEN [kind |-> "update", id |-> existing.id, profile_id |-> p,
          outbound_flight_id |-> out_f.id, inbound_flight_id |-> in_f.id,
          total_price_pp |-> actual_price_pp(p, out_f, in_f),
          updated_at |-> t,
          old_price |-> existing.total_price_pp,
          old_notified |-> existing.notified]
    ELSE [kind |-> "insert", id |-> 0, profile_id |-> p,
          outbound_flight_id |-> out_f.id, inbound_flight_id |-> in_f.id,
          total_price_pp |-> actual_price_pp(p, out_f, in_f),
          updated_at |-> t,
          old_price |-> 0,
          old_notified |-> FALSE]

\* a lookup by the pair of flights alone
existing_deals_any_profile(deals, p, out_f, in_f) ==
    { d \in deals : /\ d.outbound_flight_id = out_f.id
                    /\ d.inbound_flight_id = in_f.id }

\* filter_by(profile_id, outbound_flight_id, inbound_flight_id)
existing_deals(deals, p, out_f, in_f) ==
    { d \in deals : /\ d.profile_id = p
                    /\ d.outbound_flight_id = out_f.id
                    /\ d.inbound_flight_id = in_f.id }

\* the loop over the valid candidates: what _create_deal may leave pending,
\* filter_by(...).first() returning any of the matching rows
RECURSIVE pending_choices(_, _, _, _)
pending_choices(p, valid, deals, t) ==
    IF valid = {} THEN {{}}
    ELSE LET c == CHOOSE c \in valid : TRUE
             found == existing_deals(deals, p, c[1], c[2])
             first == IF found = {} THEN {NoDeal} ELSE found
         IN { {create_deal(p, c[1], c[2], existing, t)} \cup rest :
                existing \in first,
                rest \in pending_choices(p, valid \ {c}, deals, t) }

\* DealMatcher.run up to the end of the candidate loop; without a strategy
\* it returns at once.  datetime.now() has
\* microsecond resolution: match_start is later than every instant stored
\* before.
Match(t) ==
    /\ task[t].pc = "match"
    /\ IF ~ has_strategy(task[t].pid)
       THEN /\ task' = [task EXCEPT ![t].pc = "notify"]
            /\ UNCHANGED now
       ELSE /\ now < MaxTime
            /\ now' = now + 1
            /\ LET p == task[t].pid
                   v == View(t)
                   valid == { c \in candidates(v.flights, p) :
                                is_valid_match(c[1], c[2], strategy_object(p)) }
               IN \E pending \in pending_choices(p, valid, v.deals, now + 1) :
                    task' = [task EXCEPT ![t].pc = "match_flush",
                                         ![t].match_start = now + 1,
                                         ![t].pending = pending]
    /\ UNCHANGED <<db, wdb, lock, queue>>

\* a flush that refreshes updated_at only, whatever the price
flush_updates_price_blind(deals, pending) ==
    { IF \E op \in pending : op.kind = "update" /\ op.id = d.id
      THEN LET op == CHOOSE op \in pending : op.kind = "update" /\ op.id = d.id
           IN [d EXCEPT !.updated_at = op.updated_at]
      ELSE d : d \in deals }

\* the UPDATE statements of the flush.  The unit of work writes the
\* attributes whose value differs from the one the session loaded:
\* notified is in the SET clause when the loaded row had it true.
flush_updates(deals, pending) ==
    { IF \E op \in pending : op.kind = "update" /\ op.id = d.id
      THEN LET op == CHOOSE op \in pending : op.kind = "update" /\ op.id = d.id
           IN IF op.total_price_pp # op.old_price
              THEN [d EXCEPT !.updated_at = op.updated_at,
                             !.total_price_pp = op.total_price_pp,
                             !.notified = IF op.old_notified THEN FALSE ELSE @]
              ELSE [d EXCEPT !.updated_at = op.updated_at]
      ELSE d : d \in deals }

\* the INSERT statements of the flush; SQLite gives each row max(id) + 1
RECURSIVE flush_inserts(_, _)
flush_inserts(deals, inserts) ==
    IF inserts = {} THEN deals
    ELSE LET op == CHOOSE op \in inserts : TRUE
         IN flush_inserts(
              deals \cup {[id |-> NextId(deals),
                           profile_id |-> op.profile_id,
                           outbound_flight_id |-> op.outbound_flight_id,
                           inbound_flight_id |-> op.inbound_flight_id,
                           total_price_pp |-> op.total_price_pp,
                           updated_at |-> op.updated_at,
                           notified |-> FALSE]},
              inserts \ {op})

flush(deals, pending) ==
    flush_inserts(flush_updates(deals, pending),
                  { op \in pending : op.kind = "insert" })

\* a prune that forgets the profile filter
prune_deals_any_profile(deals, p, match_start) ==
    { d \in deals : ~ (d.updated_at < match_start) }

\* Deal.profile_id == profile.id, Deal.updated_at < match_start: delete
prune_deals(deals, p, match_start) ==
    { d \in deals : ~ (d.profile_id = p /\ d.updated_at < match_start) }

\* an UPDATE of a row another session deleted matches no row
StaleData(t) ==
    \E op \in task[t].pending :
        /\ op.kind = "update"
        /\ ~ \E d \in View(t).deals : d.id = op.id

\* DealMatcher.run: self.db.flush() and the prune of unrefreshed deals
MatchFlush(t) ==
    /\ task[t].pc = "match_flush"
    /\ CanWrite(t)
    /\ IF StaleData(t)
       THEN Raise(t, "stale")
       ELSE /\ Write(t, [View(t) EXCEPT
                           !.deals = prune_deals(flush(@, task[t].pending),
                                                 task[t].pid,
                                                 task[t].match_start)])
            /\ task' = [task EXCEPT ![t].pc = "notify"]
            /\ UNCHANGED <<now, db, queue>>

(***************************************************************************)
(* services/notifier.py notify_new_deals.                                  *)
(***************************************************************************)
\* the viewonly relationships Deal.outbound / Deal.inbound: None when the
\* flight row is gone
has_flight(flights, id) == \E f \in flights : f.id = id

flight_of(flights, id) == CHOOSE f \in flights : f.id = id

push_entry(d) == <<d.id, d.notified>>

\* by_dest: the first deal per destination in order of total_price_pp
by_dest_choices(flights, actual_deals) ==
    LET dest_of(d) == flight_of(flights, d.outbound_flight_id).destination
        dests == { dest_of(d) : d \in actual_deals }
    IN { m \in [dests -> actual_deals] :
           \A dest \in dests :
              /\ dest_of(m[dest]) = dest
              /\ \A d \in actual_deals :
                    dest_of(d) = dest
                      => m[dest].total_price_pp <= d.total_price_pp }

\* sorted(unbelled.values(), key=total_price_pp)[:3]
top3_choices(unbelled) ==
    { s \in SUBSET unbelled :
        /\ Cardinality(s) = Min(3, Cardinality(unbelled))
        /\ \A a \in s : \A b \in unbelled \ s :
              a.total_price_pp <= b.total_price_pp }

\* marking that waits for a delivered push
mark_notified_if_sent(deals, p, sent) ==
    { IF d.profile_id = p /\ sent > 0
      THEN [d EXCEPT !.notified = TRUE]
      ELSE d : d \in deals }

\* update(Deal).where(Deal.profile_id == profile.id).values(notified=True);
\* `sent` counts the delivered pushes and is only logged
mark_notified(deals, p, sent) ==
    { IF d.profile_id = p
      THEN [d EXCEPT !.notified = TRUE]
      ELSE d : d \in deals }

Notify(t) ==
    /\ task[t].pc = "notify"
    /\ LET p == task[t].pid
           v == View(t)
           actual_deals == { d \in v.deals : d.profile_id = p }
       IN IF get_ntfy_url(p) = None \/ actual_deals = {}
          THEN /\ task' = [task EXCEPT ![t].pc = "stamp", ![t].pending = {}]
               /\ UNCHANGED <<now, db, wdb, lock, queue>>
          ELSE IF \E d \in actual_deals :
                     ~ has_flight(v.flights, d.outbound_flight_id)
          THEN Raise(t, "orphan")
          ELSE \E by_dest \in by_dest_choices(v.flights, actual_deals) :
               LET belled == { dest \in DOMAIN by_dest :
                                 dest \in notify_destinations(p) }
                   unbelled == { by_dest[dest] :
                                   dest \in DOMAIN by_dest \ belled }
               IN IF \E dest \in belled :
                        ~ has_flight(v.flights, by_dest[dest].inbound_flight_id)
                  THEN Raise(t, "orphan")
                  ELSE \E top3 \in top3_choices(unbelled) :
                       LET pushes ==
                             { [kind |-> "dest", dest |-> dest,
                                deals |-> {push_entry(by_dest[dest])}] :
                                  dest \in belled }
                             \cup
                             (IF unbelled = {} THEN {}
                              ELSE {[kind |-> "summary", dest |-> None,
                                     deals |-> { push_entry(d) : d \in top3 }]})
                       IN \E failed \in SUBSET pushes :
                            /\ Write(t, [v EXCEPT !.deals =
                                  mark_notified(@, p,
                                     Cardinality(pushes \ failed))])
                            /\ task' = [task EXCEPT ![t].pc = "stamp",
                                                    ![t].pending = {},
                                                    ![t].pushed = pushes,
                                                    ![t].failed_posts = failed]
                            /\ UNCHANGED <<now, db, queue>>

(***************************************************************************)
(* update_single_profile: the stamp and the commit; the except clause.     *)
(***************************************************************************)
\* a stamp that is skipped unless every post went through
Stamp_if_all_sent(t) ==
    /\ task[t].pc = "stamp"
    /\ task[t].failed_posts = {}
    /\ CanWrite(t)
    /\ db' = [View(t) EXCEPT !.profiles[task[t].pid].updated_at = now,
                             !.profiles[task[t].pid].never_updated = FALSE]
    /\ wdb' = db'
    /\ lock' = None
    /\ task' = [task EXCEPT ![t] = Finished]
    /\ UNCHANGED <<now, queue>>

\* profile.updated_at = datetime.now(); db.commit()
Stamp(t) ==
    /\ task[t].pc = "stamp"
    /\ CanWrite(t)
    /\ db' = [View(t) EXCEPT !.profiles[task[t].pid].updated_at = now,
                             !.profiles[task[t].pid].never_updated = FALSE]
    /\ wdb' = db'
    /\ lock' = None
    /\ task' = [task EXCEPT ![t] = Finished]
    /\ UNCHANGED <<now, queue>>

\* an except clause that commits what the session did
Rollback_commits(t) ==
    /\ task[t].pc = "failed"
    /\ lock' = IF lock = t THEN None ELSE lock
    /\ db' = View(t)
    /\ wdb' = db'
    /\ task' = [task EXCEPT ![t] = [Finished EXCEPT !.error = task[t].error,
                                                    !.pid = task[t].pid,
                                                    !.by = "log"]]
    /\ UNCHANGED <<now, queue>>

\* except Exception: db.rollback(); the log keeps the profile and the
\* exception
Rollback(t) ==
    /\ task[t].pc = "failed"
    /\ lock' = IF lock = t THEN None ELSE lock
    /\ wdb' = IF lock = t THEN db ELSE wdb
    /\ task' = [task EXCEPT ![t] = [Finished EXCEPT !.error = task[t].error,
                                                    !.pid = task[t].pid,
                                                    !.by = "log"]]
    /\ UNCHANGED <<now, db, queue>>

\* a write statement waits for the lock longer than busy_timeout:
\* OperationalError, database is locked
DbLocked(t) ==
    /\ task[t].pc \in {"fetch_out", "fetch_in", "scanlog", "match_flush"}
    /\ ~ CanWrite(t)
    /\ Raise(t, "locked")

(***************************************************************************)
(* scheduler/runner.py prune_stale_data, one transaction of the scheduler  *)
(* thread.                                                                 *)
(***************************************************************************)
\* scan_log rows are kept 7 days, counted in ticks
ScanLogRetentionTicks == 3

\* Flight.updated_at < stale_threshold: delete
delete_stale_flights(flights, t) ==
    { f \in flights : ~ (f.updated_at < t - StalenessTicks) }

\* a delete of orphaned deals that looks at the outbound flight only
delete_orphaned_deals_outbound_only(deals, flights) ==
    { d \in deals : \E f \in flights : f.id = d.outbound_flight_id }

\* outbound_flight_id or inbound_flight_id not among the flight ids: delete
delete_orphaned_deals(deals, flights) ==
    { d \in deals : /\ \E f \in flights : f.id = d.outbound_flight_id
                    /\ \E f \in flights : f.id = d.inbound_flight_id }

\* ScanLog.scanned_at < now - 7 days: delete
delete_old_logs(scan_log, t) ==
    { r \in scan_log : ~ (r.scanned_at < t - ScanLogRetentionTicks) }

\* the three deletes and the commit, when nothing fails
prune_stale_data ==
    /\ ~ SchedulerBusy
    /\ lock = None
    /\ LET flights == delete_stale_flights(db.flights, now)
           deals == delete_orphaned_deals(db.deals, flights)
           scan_log == delete_old_logs(db.scan_log, now)
       IN /\ db' = [db EXCEPT !.flights = flights, !.deals = deals,
                              !.scan_log = scan_log]
          /\ db' # db
    /\ wdb' = db'
    /\ UNCHANGED <<now, lock, task, queue>>

(***************************************************************************)
(* The system.                                                             *)
(***************************************************************************)
Next ==
    \/ Tick
    \/ check_and_run_updates
    \/ WorkerStart
    \/ \E p \in Profiles : run_background_update(p)
    \/ \E t \in Tasks : LoadProfile(t)
    \/ \E t \in Tasks : ScanCheck(t)
    \/ \E t \in Tasks : FetchOutbound(t)
    \/ \E t \in Tasks : FetchInbound(t)
    \/ \E t \in Tasks : UpstreamError(t)
    \/ \E t \in Tasks : ScanLogAppend(t)
    \/ \E t \in Tasks : Match(t)
    \/ \E t \in Tasks : MatchFlush(t)
    \/ \E t \in Tasks : Notify(t)
    \/ \E t \in Tasks : Stamp(t)
    \/ \E t \in Tasks : Rollback(t)
    \/ \E t \in Tasks : DbLocked(t)
    \/ prune_stale_data

Spec == Init /\ [][Next]_vars

(***************************************************************************)
(* The harvester at work for a profile with two home airports, which its   *)
(* owner may run by hand and may delete.                                   *)
(***************************************************************************)
\* webapp/app.py delete_profile: the owner's delete clears is_active
delete_profile(p) ==
    /\ HasOwner(p)
    /\ db.profiles[p].is_active
    /\ lock = None
    /\ db' = [db EXCEPT !.profiles[p].is_active = FALSE]
    /\ wdb' = db'
    /\ UNCHANGED <<now, lock, task, queue>>

InitH ==
    /\ now = 0
    /\ db = [InitDb EXCEPT
                !.profiles = [p \in {"P3"} |->
                                [is_active |-> TRUE,
                                 never_updated |-> FALSE,
                                 updated_at |-> 0 - UpdateIntervalTicks - 1]]]
    /\ wdb = db
    /\ lock = None
    /\ task = [t \in {"A", "B"} |-> IdleTask]
    /\ queue = <<>>

NextH ==
    \/ Next
    \/ \E p \in Profiles : delete_profile(p)

SpecH == InitH /\ [][NextH]_vars

(***************************************************************************)
(* The thread pool at work: more due profiles than worker threads.  The    *)
(* four profiles have no origins and no strategy, so their orchestrations  *)
(* load, return from scanner, matcher and notifier at once, and stamp.     *)
(***************************************************************************)
InitS ==
    /\ now = 0
    /\ \E never \in BOOLEAN, active \in BOOLEAN,
         stamped \in {0 - UpdateIntervalTicks - 1, 0} :
         db = [InitDb EXCEPT
                 !.profiles =
                    [p \in {"Q1", "Q2", "Q3", "Q4"} |->
                       [is_active |-> IF p = "Q2" THEN active ELSE TRUE,
                        never_updated |-> IF p = "Q1" THEN never ELSE FALSE,
                        updated_at |->
                           IF p = "Q1" /\ never THEN 0
                           ELSE IF p = "Q3" THEN stamped
                           ELSE 0 - UpdateIntervalTicks - 1]]]
    /\ wdb = db
    /\ lock = None
    /\ task = [t \in {"A", "B", "C", "D"} |-> IdleTask]
    /\ queue = <<>>

NextS ==
    \/ Tick
    \/ check_and_run_updates
    \/ WorkerStart
    \/ \E t \in Tasks : LoadProfile(t)
    \/ \E t \in Tasks : Match(t)
    \/ \E t \in Tasks : Notify(t)
    \/ \E t \in Tasks : Stamp(t)

SpecS == InitS /\ [][NextS]_vars

\* the worker threads run: a free worker takes the next submitted task,
\* and every call of an orchestration returns
SpecSFair ==
    /\ SpecS
    /\ WF_vars(WorkerStart)
    /\ \A t \in {"A", "B", "C", "D"} :
          /\ WF_vars(LoadProfile(t))
          /\ WF_vars(Match(t))
          /\ WF_vars(Notify(t))
          /\ WF_vars(Stamp(t))

(***************************************************************************)
(* prune_stale_data statement by statement, in the session of the          *)
(* scheduler thread, over a store that holds flights, deals and scan-log   *)
(* rows of different ages; any statement may raise, and the except clause  *)
(* rolls the transaction back.                                             *)
(***************************************************************************)
\* db.query(Flight).filter(...).delete()
PruneFlights(t) ==
    /\ task[t].pc = "idle"
    /\ Write(t, [View(t) EXCEPT
                   !.flights = delete_stale_flights(@, now)])
    /\ task' = [task EXCEPT ![t] = [IdleTask EXCEPT !.pc = "prune_deals",
                                                    !.by = "prune"]]
    /\ UNCHANGED <<now, db, queue>>

\* db.query(Deal).filter(...).delete(synchronize_session="fetch")
PruneDeals(t) ==
    /\ task[t].pc = "prune_deals"
    /\ Write(t, [View(t) EXCEPT
                   !.deals = delete_orphaned_deals(@, View(t).flights)])
    /\ task' = [task EXCEPT ![t].pc = "prune_logs"]
    /\ UNCHANGED <<now, db, queue>>

\* db.query(ScanLog).filter(...).delete()
PruneLogs(t) ==
    /\ task[t].pc = "prune_logs"
    /\ Write(t, [View(t) EXCEPT
                   !.scan_log = delete_old_logs(@, now)])
    /\ task' = [task EXCEPT ![t].pc = "prune_commit"]
    /\ UNCHANGED <<now, db, queue>>

\* db.commit()
PruneCommit(t) ==
    /\ task[t].pc = "prune_commit"
    /\ db' = View(t)
    /\ wdb' = db'
    /\ lock' = None
    /\ task' = [task EXCEPT ![t] = Finished]
    /\ UNCHANGED <<now, queue>>

\* except Exception: db.rollback()
PruneFails(t) ==
    /\ task[t].pc \in {"prune_deals", "prune_logs", "prune_commit"}
    /\ lock' = None
    /\ wdb' = db
    /\ task' = [task EXCEPT ![t] = [Finished EXCEPT !.error = "prune",
                                                    !.by = "log"]]
    /\ UNCHANGED <<now, db, queue>>

\* rows the store may hold: a pair of flights, each stale or fresh, deals
\* on them and on a flight that is gone, scan-log rows old and new
StoredFlights ==
    { Row(f, t) :
        f \in { g \in Offers : /\ g.adults = 2
                                /\ <<g.origin, g.destination>>
                                     \in {<<"PSA", "BCN">>, <<"BCN", "PSA">>} },
        t \in {0 - StalenessTicks - 1, 0} }

StoredDeals ==
    { [id |-> x[1], profile_id |-> "P1",
       outbound_flight_id |-> unique_id([origin |-> "PSA", destination |-> x[2],
                                         departure_time |-> x[3], adults |-> 2]),
       inbound_flight_id |-> unique_id([origin |-> x[2], destination |-> "PSA",
                                        departure_time |-> x[4], adults |-> 2]),
       total_price_pp |-> 5000, updated_at |-> 0, notified |-> TRUE] :
         x \in {<<1, "BCN", 104, 108>>, <<2, "MAD", 105, 109>>} }

StoredLogs ==
    { [id |-> 1, origin |-> "PSA", adults |-> 2,
       scanned_at |-> 0 - ScanLogRetentionTicks - 1],
      [id |-> 2, origin |-> "PSA", adults |-> 2, scanned_at |-> 0] }

InitP ==
    /\ now = 0
    /\ \E flights \in SUBSET StoredFlights, deals \in SUBSET StoredDeals,
         scan_log \in SUBSET StoredLogs :
         /\ \A f, g \in flights : f.id = g.id => f = g
         /\ db = [InitDb EXCEPT !.flights = flights, !.deals = deals,
                                !.scan_log = scan_log]
    /\ wdb = db
    /\ lock = None
    /\ task = [t \in {"A"} |-> IdleTask]
    /\ queue = <<>>

NextP ==
    \/ Tick
    \/ \E t \in Tasks : PruneFlights(t)
    \/ \E t \in Tasks : PruneDeals(t)
    \/ \E t \in Tasks : PruneLogs(t)
    \/ \E t \in Tasks : PruneCommit(t)
    \/ \E t \in Tasks : PruneFails(t)

SpecP == InitP /\ [][NextP]_vars

(***************************************************************************)
(* FlightScanner._bulk_upsert on its own: a session receives a batch from  *)
(* the fare source, upserts it and commits, over a store that already      *)
(* holds rows.  A batch answers one query: one party size, one leg per     *)
(* route and departure.                                                    *)
(***************************************************************************)
UpsertOffers ==
    { [origin |-> "PSA", destination |-> x[1], departure_time |-> x[2],
       arrival_time |-> x[3], price |-> x[4], adults |-> x[5],
       flight_number |-> x[6]] :
         x \in {<<"BCN", 104, 106, 2000, 2, "FR104">>,
                <<"BCN", 104, 107, 2500, 2, "FR9104">>,
                <<"BCN", 104, 106, 1800, 1, "FR104">>,
                <<"MAD", 105, 107, 2500, 2, "FR105">>} }

UpsertBatches ==
    { b \in SUBSET UpsertOffers :
        /\ b # {}
        /\ \A f, g \in b : f.adults = g.adults
        /\ \A f, g \in b : unique_id(f) = unique_id(g) => f = g }

InitU ==
    /\ now = 0
    /\ \E legs \in SUBSET UpsertOffers :
         /\ \A f, g \in legs : unique_id(f) = unique_id(g) => f = g
         /\ db = [InitDb EXCEPT !.flights = { Row(f, 0) : f \in legs }]
    /\ wdb = db
    /\ lock = None
    /\ task = [t \in {"A"} |-> IdleTask]
    /\ queue = <<>>

\* get_cheapest_flights has answered: the batch handed to _bulk_upsert
ReceiveBatch(t) ==
    /\ task[t].pc = "idle"
    /\ \E api_flights \in UpsertBatches :
         task' = [task EXCEPT ![t].pc = "upsert", ![t].by = "scanner",
                              ![t].api_flights = api_flights]
    /\ UNCHANGED <<now, db, wdb, lock, queue>>

\* _bulk_upsert executes the statement
BulkUpsert(t) ==
    /\ task[t].pc = "upsert"
    /\ Write(t, [View(t) EXCEPT
                   !.flights = bulk_upsert(@, task[t].api_flights, now)])
    /\ task' = [task EXCEPT ![t].pc = "upserted"]
    /\ UNCHANGED <<now, db, queue>>

\* the session commits and is closed
UpsertCommit(t) ==
    /\ task[t].pc = "upserted"
    /\ db' = wdb
    /\ lock' = None
    /\ task' = [task EXCEPT ![t] = Finished]
    /\ UNCHANGED <<now, wdb, queue>>

NextU ==
    \/ Tick
    \/ \E t \in Tasks : ReceiveBatch(t)
    \/ \E t \in Tasks : BulkUpsert(t)
    \/ \E t \in Tasks : UpsertCommit(t)

SpecU == InitU /\ [][NextU]_vars

(***************************************************************************)
(* services/airports.py: the metro-area index.                             *)
(***************************************************************************)
\* the airports of the table _load_airport_coords reads
KnownAirports == {"PSA", "FLR", "BCN", "GRO", "MAD"}

\* a distance measured one way only
haversine_km_one_way(a, b) ==
    IF a = b THEN 0
    ELSE IF <<a, b>> = <<"PSA", "FLR">> THEN 69
    ELSE IF <<a, b>> = <<"BCN", "GRO">> THEN 80
    ELSE 900

\* _haversine_km between two airports of the table, in whole km
haversine_km(a, b) ==
    IF a = b THEN 0
    ELSE IF {a, b} = {"PSA", "FLR"} THEN 69
    ELSE IF {a, b} = {"BCN", "GRO"} THEN 80
    ELSE 900

\* a lookup that ignores the radius it is given and uses the default
get_nearby_airports_default_radius(iata, radius_km) ==
    IF iata \notin KnownAirports THEN {iata}
    ELSE {iata} \cup { other \in KnownAirports \ {iata} :
                         haversine_km(iata, other) <= 100 }

\* get_nearby_airports / get_nearby_set: the airport itself and every
\* airport of the table within radius_km
get_nearby_airports(iata, radius_km) ==
    IF iata \notin KnownAirports THEN {iata}
    ELSE IF radius_km <= 0 THEN {iata}
    ELSE {iata} \cup { other \in KnownAirports \ {iata} :
                         haversine_km(iata, other) <= radius_km }

(***************************************************************************)
(* The two-pass matcher (spec 4.E), with the deal upsert, the flush and    *)
(* the prune of DealMatcher.run.                                           *)
(***************************************************************************)
\* the radii the configuration may set
Radii == {0, 75, 100}

\* step 5: drop pairs that fly out to a destination the owner excludes
not_excluded(dest, p) == ~ (HasOwner(p) /\ dest \in excluded_destinations(p))

\* step 2, exact pairing
pass1(flights, p) ==
    { c \in flights \X flights :
        /\ InSeq(c[1].origin, origins(p))
        /\ c[1].adults = adults(p)
        /\ c[2].origin = c[1].destination
        /\ c[2].destination = c[1].origin
        /\ InSeq(c[2].destination, origins(p))
        /\ c[2].adults = adults(p)
        /\ c[2].departure_time > c[1].arrival_time
        /\ within_budget(c[1], c[2], p) }

\* step 3, metro-area pairing; a no-op when the radius is 0
pass2(flights, p, radius_km) ==
    IF radius_km <= 0 THEN {}
    ELSE { c \in flights \X flights :
             /\ InSeq(c[1].origin, origins(p))
             /\ c[1].adults = adults(p)
             /\ c[2].origin \in get_nearby_airports(c[1].destination, radius_km)
             /\ \E k \in 1..Len(origins(p)) :
                   c[2].destination
                     \in get_nearby_airports(origins(p)[k], radius_km)
             /\ c[2].adults = adults(p)
             /\ c[2].departure_time > c[1].arrival_time
             /\ within_budget(c[1], c[2], p) }

\* steps 4 to 6 on the pairs of a pass
surviving(found, p) ==
    { c \in found :
        /\ destination_allowed(c[1].destination, p)
        /\ not_excluded(c[1].destination, p)
        /\ is_valid_match(c[1], c[2], strategy_object(p)) }

\* a second pass that does not look at the pairs of the first
second_pass_no_dedup(first, second) == second

\* the pairs of the second pass not seen in the first, by (Out.id, In.id)
second_pass(first, second) ==
    { c \in second :
        \A s \in first : ~ (s[1].id = c[1].id /\ s[2].id = c[2].id) }

(***************************************************************************)
(* DealMatcher.run on its own: one session runs the matcher for one        *)
(* profile after the other over a store of flights and of deals left by    *)
(* earlier runs, and commits.                                              *)
(***************************************************************************)
MatchLegs ==
    { [origin |-> x[1], destination |-> x[2], departure_time |-> x[3],
       arrival_time |-> x[4], price |-> x[5], adults |-> x[6],
       flight_number |-> "FR"] :
         x \in {<<"PSA", "BCN", 101, 103, 2000, 1>>,
                <<"PSA", "BCN", 102, 104, 2000, 1>>,
                <<"PSA", "BCN", 106, 108, 2600, 1>>,
                <<"PSA", "BCN", 107, 108, 2000, 1>>,
                <<"PSA", "MAD", 103, 105, 2000, 1>>,
                <<"BCN", "PSA", 110, 112, 3000, 1>>,
                <<"BCN", "PSA", 111, 113, 2500, 1>>,
                <<"MAD", "PSA", 109, 111, 2500, 1>>,
                <<"BCN", "PSA", 120, 122, 2500, 1>>,
                <<"BCN", "PSA", 143, 145, 2500, 1>>,
                <<"PSA", "BCN", 104, 106, 2000, 2>>,
                <<"BCN", "PSA", 109, 111, 2500, 2>>,
                <<"BCN", "PSA", 110, 112, 3100, 2>>} }

\* the legs a store may lack
OptionalLegs ==
    { f \in MatchLegs :
        \/ f.origin = "MAD"
        \/ f.origin = "BCN" /\ f.departure_time \in {109, 110} }

\* deals earlier runs left: one to a destination M2 no longer allows, one
\* M1 holds on a pair now over budget, one M1 holds on a pair still valid
MatchDeals ==
    { [id |-> x[1], profile_id |-> x[2],
       outbound_flight_id |-> unique_id([origin |-> "PSA", destination |-> x[3],
                                         departure_time |-> x[4], adults |-> 1]),
       inbound_flight_id |-> unique_id([origin |-> x[3], destination |-> "PSA",
                                        departure_time |-> x[5], adults |-> 1]),
       total_price_pp |-> x[6], updated_at |-> 0, notified |-> TRUE] :
         x \in {<<1, "M2", "MAD", 103, 109, 4500>>,
                <<2, "M1", "BCN", 106, 110, 5000>>,
                <<3, "M1", "BCN", 102, 110, 5000>>} }

InitM ==
    /\ now = 0
    /\ \E missing \in SUBSET OptionalLegs, deals \in SUBSET MatchDeals :
         db = [flights |-> { Row(f, 0) : f \in MatchLegs \ missing },
               deals |-> deals,
               scan_log |-> {},
               profiles |-> [p \in MatchProfiles |->
                               [is_active |-> TRUE, never_updated |-> FALSE,
                                updated_at |-> 0]]]
    /\ wdb = db
    /\ lock = None
    /\ task = [t \in {"A"} |-> IdleTask]
    /\ queue = <<>>

\* update_single_profile reaches matcher.run(profile)
StartMatch(t) ==
    /\ task[t].pc = "idle"
    /\ \E p \in Profiles :
         task' = [task EXCEPT ![t] = [IdleTask EXCEPT !.pc = "match", !.pid = p,
                                                      !.by = "matcher"]]
    /\ UNCHANGED <<now, db, wdb, lock, queue>>

\* the caller commits the run and closes the session
MatchCommit(t) ==
    /\ task[t].pc = "notify"
    /\ db' = wdb
    /\ lock' = None
    /\ task' = [task EXCEPT ![t] = Finished]
    /\ UNCHANGED <<now, wdb, queue>>

NextM ==
    \/ Tick
    \/ \E t \in Tasks : StartMatch(t)
    \/ \E t \in Tasks : Match(t)
    \/ \E t \in Tasks : MatchFlush(t)
    \/ \E t \in Tasks : MatchCommit(t)

SpecM == InitM /\ [][NextM]_vars

(***************************************************************************)
(* The two-pass matcher on its own, under a configured radius.             *)
(***************************************************************************)
\* legs around Pisa / Florence and Barcelona / Girona, and Madrid
NearLegs ==
    { [origin |-> x[1], destination |-> x[2], departure_time |-> x[3],
       arrival_time |-> x[3] + 2, price |-> x[4], adults |-> 1,
       flight_number |-> "FR"] :
         x \in {<<"PSA", "BCN", 102, 2000>>, <<"PSA", "GRO", 103, 2000>>,
                <<"PSA", "MAD", 104, 2000>>, <<"BCN", "PSA", 110, 2500>>,
                <<"BCN", "FLR", 109, 2500>>, <<"MAD", "PSA", 109, 2500>>,
                <<"BCN", "MAD", 108, 2000>>, <<"GRO", "PSA", 108, 2500>>} }

\* deals earlier runs left: exact and cross-airport pairs of N1 and N2
NearDeals ==
    { [id |-> x[1], profile_id |-> x[2],
       outbound_flight_id |-> unique_id([origin |-> "PSA", destination |-> x[3],
                                         departure_time |-> x[4], adults |-> 1]),
       inbound_flight_id |-> unique_id([origin |-> "BCN", destination |-> "PSA",
                                        departure_time |-> 110, adults |-> 1]),
       total_price_pp |-> 4500, updated_at |-> 0, notified |-> TRUE] :
         x \in {<<1, "N2", "BCN", 102>>, <<2, "N1", "GRO", 103>>,
                <<3, "N1", "BCN", 102>>} }

InitN ==
    /\ now = 0
    /\ \E missing \in SUBSET { f \in NearLegs : f.destination = "PSA"
                                                /\ f.origin \in {"BCN", "GRO"} },
          deals \in SUBSET NearDeals :
         db = [flights |-> { Row(f, 0) : f \in NearLegs \ missing },
               deals |-> deals,
               scan_log |-> {},
               profiles |-> [p \in NearProfiles |->
                               [is_active |-> TRUE, never_updated |-> FALSE,
                                updated_at |-> 0]]]
    /\ wdb = db
    /\ lock = None
    /\ task = [t \in {"A"} |-> IdleTask]
    /\ queue = <<>>

\* matcher.run(profile) is called under some configured radius
StartTwoPass(t) ==
    /\ task[t].pc = "idle"
    /\ \E p \in Profiles, radius_km \in Radii :
         task' = [task EXCEPT ![t] = [IdleTask EXCEPT !.pc = "match", !.pid = p,
                                                      !.by = "matcher",
                                                      !.radius = radius_km]]
    /\ UNCHANGED <<now, db, wdb, lock, queue>>

\* the run up to the end of the second loop: every surviving pair of
\* pass 1, then every surviving pair of pass 2 not yet seen, is upserted
\* and counted
MatchTwoPass(t) ==
    /\ task[t].pc = "match"
    /\ now < MaxTime
    /\ now' = now + 1
    /\ LET p == task[t].pid
           v == View(t)
           first == surviving(pass1(v.flights, p), p)
           second == second_pass(first,
                                 surviving(pass2(v.flights, p, task[t].radius), p))
       IN \E pending \in pending_choices(p, first \cup second, v.deals, now + 1) :
            task' = [task EXCEPT
                       ![t].pc = "match_flush",
                       ![t].match_start = now + 1,
                       ![t].pending = pending,
                       ![t].num_matches = Cardinality(first) + Cardinality(second)]
    /\ UNCHANGED <<db, wdb, lock, queue>>

NextN ==
    \/ Tick
    \/ \E t \in Tasks : StartTwoPass(t)
    \/ \E t \in Tasks : MatchTwoPass(t)
    \/ \E t \in Tasks : MatchFlush(t)
    \/ \E t \in Tasks : MatchCommit(t)

SpecN == InitN /\ [][NextN]_vars

(***************************************************************************)
(* The matcher over a store with an outbound leg at every hour of Friday   *)
(* and one return on Saturday.                                             *)
(***************************************************************************)
WindowLegs ==
    { [origin |-> "PSA", destination |-> "BCN", departure_time |-> 96 + h,
       arrival_time |-> 96 + h + 2, price |-> 2000, adults |-> 1,
       flight_number |-> "FR"] : h \in 0..23 }
    \cup
    { [origin |-> "BCN", destination |-> "PSA", departure_time |-> 130,
       arrival_time |-> 132, price |-> 2000, adults |-> 1,
       flight_number |-> "FR"] }

InitW ==
    /\ now = 0
    /\ \E missing \in SUBSET { f \in WindowLegs :
                                  f.departure_time \in {96, 97, 119} } :
         db = [flights |-> { Row(f, 0) : f \in WindowLegs \ missing },
               deals |-> {},
               scan_log |-> {},
               profiles |-> [p \in WindowProfiles |->
                               [is_active |-> TRUE, never_updated |-> FALSE,
                                updated_at |-> 0]]]
    /\ wdb = db
    /\ lock = None
    /\ task = [t \in {"A"} |-> IdleTask]
    /\ queue = <<>>

SpecW == InitW /\ [][NextM]_vars

(***************************************************************************)
(* The daily digest.  D1, D2 and D3 belong to users; D1's owner has no     *)
(* ntfy topic and the global topic is empty.  The store may hold a deal    *)
(* whose flight is gone: an update that a user starts for a profile with   *)
(* no channel commits the deals it flushed after prune_stale_data deleted  *)
(* their flights, and the next prune is a day away.                        *)
(***************************************************************************)
\* list(best_by_dest.values())[:15]
DIGEST_MAX_LINES == 15

\* the most destinations a profile has deals for
MaxDests == 17

\* order_by(Deal.total_price_pp): every order of the rows that ascends in
\* price
RECURSIVE sorted_by_price(_)
sorted_by_price(deals) ==
    IF deals = {} THEN {<<>>}
    ELSE LET cheapest == { d \in deals :
                             \A e \in deals :
                                d.total_price_pp <= e.total_price_pp }
         IN UNION { { <<d>> \o s : s \in sorted_by_price(deals \ {d}) } :
                      d \in cheapest }

\* best_by_dest: a dict keeps the order of insertion, and a deal is
\* inserted when its destination is not yet a key
RECURSIVE best_by_dest(_, _, _)
best_by_dest(flights, ordered, seen) ==
    IF ordered = <<>> THEN <<>>
    ELSE LET deal == Head(ordered)
             dest == flight_of(flights, deal.outbound_flight_id).destination
         IN IF dest \in seen
            THEN best_by_dest(flights, Tail(ordered), seen)
            ELSE <<deal>> \o best_by_dest(flights, Tail(ordered),
                                          seen \cup {dest})

\* the deals the body of the digest lists, in its order
digest_lines(flights, ordered) ==
    LET best == best_by_dest(flights, ordered, {})
    IN SubSeq(best, 1, Min(DIGEST_MAX_LINES, Len(best)))

\* one turn of the loop over the profiles: "raise" when a deal has lost a
\* flight the loop reads, "skip" for the two `continue`, else the push
digest_of(v, p) ==
    LET deals == { d \in v.deals : d.profile_id = p }
        outcome(kind, lines) == [kind |-> kind, pid |-> p, lines |-> lines]
    IN IF \E d \in deals : ~ has_flight(v.flights, d.outbound_flight_id)
       THEN {outcome("raise", <<>>)}
       ELSE IF deals = {} \/ get_ntfy_url(p) = None
       THEN {outcome("skip", <<>>)}
       ELSE { IF \E k \in 1..Len(lines) :
                    ~ has_flight(v.flights, lines[k].inbound_flight_id)
              THEN outcome("raise", <<>>)
              ELSE outcome("digest",
                           [k \in 1..Len(lines) |-> lines[k].id]) :
                lines \in { digest_lines(v.flights, ordered) :
                              ordered \in sorted_by_price(deals) } }

\* send_daily_digest: the pushes posted and whether the function raised
RECURSIVE send_daily_digest(_, _, _)
send_daily_digest(v, todo, pushed) ==
    IF todo = <<>> THEN {[pushed |-> pushed, error |-> None]}
    ELSE UNION { IF r.kind = "raise"
                 THEN {[pushed |-> pushed, error |-> "orphan"]}
                 ELSE IF r.kind = "skip"
                 THEN send_daily_digest(v, Tail(todo), pushed)
                 ELSE send_daily_digest(v, Tail(todo), pushed \cup {r}) :
                   r \in digest_of(v, Head(todo)) }

\* scheduler/runner.py run_daily_digest: a session of its own, the digest,
\* a raise is logged, the session is closed; a post that fails is logged
run_daily_digest(t) ==
    /\ task[t].pc = "idle"
    /\ LET is_active(p) == p \in Profiles /\ db.profiles[p].is_active
           \* rows come back in rowid order
           DigestOrder == <<"D1", "D2", "D3">>
       IN \E r \in send_daily_digest(db, SelectSeq(DigestOrder, is_active), {}) :
          \E failed \in SUBSET r.pushed :
             task' = [task EXCEPT ![t] = [Finished EXCEPT
                                            !.by = "digest",
                                            !.pushed = r.pushed,
                                            !.failed_posts = failed,
                                            !.error = r.error]]
    /\ UNCHANGED <<now, db, wdb, lock, queue>>

InitD ==
    LET
        DigestLegs ==
            LET WideDests == { "X" \o ToString(k) : k \in 1..MaxDests }
            IN
            { [origin |-> x[1], destination |-> x[2], departure_time |-> x[3],
               arrival_time |-> x[3] + 2, price |-> 2000, adults |-> 1,
               flight_number |-> "FR"] :
                 x \in {<<"PSA", "BCN", 104>>, <<"PSA", "MAD", 105>>,
                        <<"BCN", "PSA", 108>>, <<"MAD", "PSA", 109>>} }
            \cup
            { [origin |-> "PSA", destination |-> dest, departure_time |-> 106,
               arrival_time |-> 108, price |-> 2000, adults |-> 1,
               flight_number |-> "FR"] : dest \in WideDests }
            \cup
            { [origin |-> dest, destination |-> "PSA", departure_time |-> 110,
               arrival_time |-> 112, price |-> 2000, adults |-> 1,
               flight_number |-> "FR"] : dest \in WideDests }
        DigestDeal(id, p, dest, out_h, in_h, price) ==
            [id |-> id, profile_id |-> p,
             outbound_flight_id |-> unique_id([origin |-> "PSA", destination |-> dest,
                                               departure_time |-> out_h, adults |-> 1]),
             inbound_flight_id |-> unique_id([origin |-> dest, destination |-> "PSA",
                                              departure_time |-> in_h, adults |-> 1]),
             total_price_pp |-> price, updated_at |-> 0, notified |-> TRUE]
        DigestDeals ==
            { DigestDeal(x[1], x[2], x[3], x[4], x[5], x[6]) :
                x \in {<<1, "D1", "BCN", 104, 108, 3000>>,
                       <<2, "D2", "BCN", 104, 108, 5000>>,
                       <<3, "D2", "BCN", 104, 108, 4000>>,
                       <<4, "D2", "MAD", 105, 109, 4000>>,
                       <<5, "D3", "MAD", 105, 109, 2500>>} }
        \* deals of D3 for the first n of the many destinations, the later
        \* the cheaper
        WideDeals(n) ==
            { DigestDeal(10 + k, "D3", "X" \o ToString(k), 106, 110, 9000 - 100 * k) :
                k \in 1..n }
    IN
    /\ now = 0
    /\ \E deals \in SUBSET DigestDeals,
         n \in {0} \cup ((DIGEST_MAX_LINES - 1)..MaxDests),
         missing \in SUBSET { f \in DigestLegs :
                                 \/ f.origin = "PSA" /\ f.destination = "BCN"
                                 \/ f.origin = "MAD" } :
         db = [flights |-> { Row(f, 0) : f \in DigestLegs \ missing },
               deals |-> deals \cup WideDeals(n),
               scan_log |-> {},
               profiles |-> [p \in {"D1", "D2", "D3"} |->
                               [is_active |-> TRUE, never_updated |-> FALSE,
                                updated_at |-> 0]]]
    /\ wdb = db
    /\ lock = None
    /\ task = [t \in {"A"} |-> IdleTask]
    /\ queue = <<>>

NextD ==
    \/ Tick
    \/ \E p \in Profiles : delete_profile(p)
    \/ \E t \in Tasks : run_daily_digest(t)

SpecD == InitD /\ [][NextD]_vars

(***************************************************************************)
(* services/airports.py called on its own: a caller asks for the metro     *)
(* area of an airport and whether two airports are nearby, one way and     *)
(* the other.  ZZZ and YYY are codes the table does not hold.              *)
(***************************************************************************)
\* are_nearby
are_nearby(iata_a, iata_b, radius_km) ==
    \/ iata_a = iata_b
    \/ iata_b \in get_nearby_airports(iata_a, radius_km)

InitA ==
    /\ now = 0
    /\ db = InitDb
    /\ wdb = db
    /\ lock = None
    /\ LET AirportCodes == KnownAirports \cup {"ZZZ", "YYY"}
           AirportRadii == Radii \cup {0 - 1}
       IN \E a \in AirportCodes, b \in AirportCodes, r \in AirportRadii :
            task = [t \in {"A"} |-> [IdleTask EXCEPT !.pc = "get_nearby_set",
                                                     !.origin = a,
                                                     !.queries = <<b>>,
                                                     !.radius = r]]
    /\ queue = <<>>

\* get_nearby_set(a, radius_km)
GetNearbySet(t) ==
    /\ task[t].pc = "get_nearby_set"
    /\ task' = [task EXCEPT
                  ![t].pc = "are_nearby",
                  ![t].dests = get_nearby_airports(task[t].origin,
                                                   task[t].radius)]
    /\ UNCHANGED <<now, db, wdb, lock, queue>>

\* are_nearby(a, b, radius_km), then are_nearby(b, a, radius_km)
AreNearby(t) ==
    /\ task[t].pc \in {"are_nearby", "are_nearby_back"}
    /\ LET a == task[t].origin
           b == task[t].queries[1]
           r == task[t].radius
       IN IF task[t].pc = "are_nearby"
          THEN task' = [task EXCEPT
                          ![t].pc = "are_nearby_back",
                          ![t].pending = {[a |-> a, b |-> b,
                                           nearby |-> are_nearby(a, b, r)]}]
          ELSE task' = [task EXCEPT
                          ![t].pc = "idle",
                          ![t].by = "airports",
                          ![t].pending = @ \cup
                                         {[a |-> b, b |-> a,
                                           nearby |-> are_nearby(b, a, r)]}]
    /\ UNCHANGED <<now, db, wdb, lock, queue>>

NextA ==
    \/ \E t \in Tasks : GetNearbySet(t)
    \/ \E t \in Tasks : AreNearby(t)

SpecA == InitA /\ [][NextA]_vars

(***************************************************************************)
(* The profile form.  core/schemas.py StrategyConfig validates a strategy; *)
(* webapp/app.py save_profile stores a profile row for the logged-in user. *)
(* A dict is the sequence of its items.  A weekday key is an integer, as   *)
(* in a literal, or a text, as json.loads gives it.  The strategy_json     *)
(* field of the form is the value json.loads returns, or is malformed.     *)
(* Profile rows are numbered "1", "2", ... by the store.                   *)
(***************************************************************************)
\* the most profile rows the store holds
MaxRows == 1

IntKey(i) == [is_text |-> FALSE, int |-> i, text |-> ""]

TextKey(s) == [is_text |-> TRUE, int |-> 0, text |-> s]

\* int(k): an integer is itself; a text is read as a decimal numeral,
\* blanks around it ignored
int(k) ==
    IF ~ k.is_text THEN k.int
    ELSE CHOOSE i \in -9..9 : k.text \in {ToString(i), " " \o ToString(i)}

\* parse_keys_to_int: out[int(k)] = val for every item in turn
parse_keys_to_int(v) ==
    LET \* int(k) raises ValueError on any other text
        int_raises(k) ==
            /\ k.is_text
            /\ ~ \E i \in -9..9 : k.text \in {ToString(i), " " \o ToString(i)}
    IN
    IF \E n \in 1..Len(v) : int_raises(v[n][1])
    THEN [ok |-> FALSE]
    ELSE [ok |-> TRUE,
          value |-> [day \in { int(v[n][1]) : n \in 1..Len(v) } |->
                       LET last == CHOOSE n \in 1..Len(v) :
                                     /\ int(v[n][1]) = day
                                     /\ \A m \in (n + 1)..Len(v) :
                                           int(v[m][1]) # day
                       IN v[last][2]]]

\* a range test that forgets the lower end
validate_day_range_no_floor(v) == \A day \in DOMAIN v : day <= 6

\* validate_day_range
validate_day_range(v) == \A day \in DOMAIN v : 0 <= day /\ day <= 6

\* StrategyConfig(**d): the parsed configuration, or ValidationError
StrategyConfig(d) ==
    LET out_days == parse_keys_to_int(d.out_days)
        in_days == parse_keys_to_int(d.in_days)
        \* TimeWindow = Tuple[int, int]: two integers, whatever they are
        TimeWindow(w) == Len(w) = 2
        \* check_stay_bounds raises when min_nights > max_nights
        check_stay_bounds(min_nights, max_nights) == min_nights <= max_nights
        ValidationError == [ok |-> FALSE]
    IN IF /\ out_days.ok /\ in_days.ok
          /\ \A day \in DOMAIN out_days.value : TimeWindow(out_days.value[day])
          /\ \A day \in DOMAIN in_days.value : TimeWindow(in_days.value[day])
          /\ validate_day_range(out_days.value)
          /\ validate_day_range(in_days.value)
          /\ d.min_nights >= 0 /\ d.max_nights >= 0
          /\ check_stay_bounds(d.min_nights, d.max_nights)
       THEN [ok |-> TRUE, out_days |-> out_days.value,
             in_days |-> in_days.value,
             min_nights |-> d.min_nights, max_nights |-> d.max_nights]
       ELSE ValidationError

\* the strategies handed to the constructor
StrategyInputs ==
    LET DayKeys ==
            { IntKey(i) : i \in {-1, 0, 4, 6, 7} }
            \cup { TextKey(s) :
                     s \in {"0", "4", "6", "7", "-1", " 4", "x", "4.5", ""} }
    IN
    { [out_days |-> out_days, in_days |-> <<>>,
       min_nights |-> nights[1], max_nights |-> nights[2]] :
         out_days \in {<<>>} \cup { <<<<k, <<17, 24>>>>>> : k \in DayKeys },
         nights \in (-1..1) \X (-1..1) }
    \cup
    { [out_days |-> <<<<TextKey("4"), <<17, 24>>>>>>, in_days |-> in_days,
       min_nights |-> 0, max_nights |-> 1] :
         in_days \in {<<<<IntKey(7), <<15, 23>>>>>>,
                      <<<<TextKey("6"), <<15, 23>>>>>>,
                      <<<<TextKey("6"), <<15>>>>>>,
                      <<<<TextKey("6"), <<15, 23>>>>,
                        <<IntKey(6), <<0, 24>>>>>>} }

RECURSIVE StripList(_)
\* [o.strip().upper() for o in text.split(',') if o.strip()]
StripList(pieces) ==
    LET
        \* o.strip().upper() for the pieces of origins.split(',')
        strip_upper(piece) ==
            CASE piece = "psa" -> "PSA"
              [] piece = " blq " -> "BLQ"
              [] piece \in {"", " "} -> ""
              [] OTHER -> piece
    IN
    IF pieces = <<>> THEN <<>>
    ELSE IF strip_upper(Head(pieces)) = ""
    THEN StripList(Tail(pieces))
    ELSE <<strip_upper(Head(pieces))>> \o StripList(Tail(pieces))

\* the forms a browser or any other client may post
Forms ==
    LET
        \* the submitted strategy_json texts: what json.loads makes of them
        FormStrategies ==
            { [malformed |-> FALSE,
               value |-> [out_days |-> <<<<TextKey(x[1]), x[2]>>>>,
                          in_days |-> <<<<TextKey("6"), x[3]>>>>,
                          min_nights |-> x[4], max_nights |-> x[5]]] :
                x \in {<<"4", <<17, 24>>, <<15, 23>>, 0, 1>>,
                       <<"7", <<17, 24>>, <<15, 23>>, 0, 1>>,
                       <<"-1", <<17, 24>>, <<15, 23>>, 0, 1>>,
                       <<"x", <<17, 24>>, <<15, 23>>, 0, 1>>,
                       <<"4", <<17, 24>>, <<15, 23>>, 2, 1>>,
                       <<"4", <<17, 24>>, <<15, 23>>, -1, 1>>,
                       <<"4", <<17, 24>>, <<15, 23>>, -2, -1>>,
                       <<"4", <<25, 30>>, <<15, 23>>, 0, 1>>,
                       <<"4", <<17, 5>>, <<15, 23>>, 0, 1>>,
                       <<"4", <<17, 24>>, <<-1, 5>>, 0, 1>>} }
            \cup {[malformed |-> TRUE, value |-> <<>>]}
        BaseForm ==
            [name |-> "trip", origins |-> <<"psa">>, allowed_destinations |-> <<"">>,
             max_price |-> 5000, adults |-> 1,
             strategy_json |-> [malformed |-> FALSE,
                                value |-> [out_days |-> <<<<TextKey("4"), <<17, 24>>>>>>,
                                           in_days |-> <<<<TextKey("6"), <<15, 23>>>>>>,
                                           min_nights |-> 0, max_nights |-> 1]]]
    IN
    { [BaseForm EXCEPT !.strategy_json = j] : j \in FormStrategies }
    \cup { [BaseForm EXCEPT !.origins = o] :
             o \in {<<"">>, <<" ", "">>, <<"PSA", " blq ">>} }
    \cup { [BaseForm EXCEPT !.max_price = m] : m \in {0, 0 - 100} }
    \cup { [BaseForm EXCEPT !.adults = a] : a \in {0, 0 - 1} }

Users == {"u1", "u2"}

\* save_profile
save_profile(t, user, profile_id, form) ==
    /\ task[t].pc = "idle"
    /\ lock = None
    /\ LET
           \* the response and, after a save, the update handed to the
           \* background
           Respond(status, pid) ==
               task' = [task EXCEPT ![t] = [IdleTask EXCEPT !.by = "save_profile",
                                                            !.error = status,
                                                            !.pid = pid,
                                                            !.queries = <<form>>]]
           origin_list == StripList(form.origins)
           dest_list == StripList(form.allowed_destinations)
           known == profile_id # None
           id == IF known THEN profile_id
                 ELSE ToString(Cardinality(DOMAIN db.profiles) + 1)
       IN IF origin_list = <<>>
          THEN Respond("400", None) /\ UNCHANGED db
          ELSE IF \/ form.strategy_json.malformed
                  \/ ~ StrategyConfig(form.strategy_json.value).ok
          THEN Respond("400", None) /\ UNCHANGED db
          ELSE IF known /\ (profile_id \notin DOMAIN db.profiles
                             \/ db.profiles[profile_id].user_id # user)
          THEN Respond("403", None) /\ UNCHANGED db
          ELSE /\ known \/ Cardinality(DOMAIN db.profiles) < MaxRows
               /\ LET profile == IF known THEN db.profiles[id]
                                 ELSE [user_id |-> user, is_active |-> TRUE,
                                       never_updated |-> FALSE,
                                       updated_at |-> now]
                      saved == [user_id |-> profile.user_id,
                                is_active |-> profile.is_active,
                                never_updated |-> profile.never_updated,
                                updated_at |-> profile.updated_at,
                                name |-> form.name,
                                origins |-> origin_list,
                                allowed_destinations |-> dest_list,
                                max_price |-> form.max_price,
                                adults |-> form.adults,
                                strategy_object |-> form.strategy_json]
                  IN db' = [db EXCEPT !.profiles =
                              [i \in DOMAIN db.profiles \cup {id} |->
                                 IF i = id THEN saved ELSE db.profiles[i]]]
               /\ Respond("303", id)
    /\ wdb' = db'
    /\ UNCHANGED <<now, lock, queue>>

\* a caller builds a StrategyConfig and keeps what it got
Construct(t) ==
    /\ task[t].pc = "construct"
    /\ task' = [task EXCEPT ![t] = [IdleTask EXCEPT
                    !.by = "StrategyConfig",
                    !.queries = task[t].queries,
                    !.pending = {StrategyConfig(task[t].queries[1])}]]
    /\ UNCHANGED <<now, db, wdb, lock, queue>>

InitF ==
    /\ now = 0
    /\ db = [flights |-> {}, deals |-> {}, scan_log |-> {},
             profiles |-> [p \in {} |-> 0]]
    /\ wdb = db
    /\ lock = None
    /\ \E d \in StrategyInputs :
         task = [t \in {"A"} |-> [IdleTask EXCEPT !.pc = "construct",
                                                  !.queries = <<d>>]]
    /\ queue = <<>>

NextF ==
    \/ \E t \in Tasks : Construct(t)
    \/ \E t \in Tasks, user \in Users, form \in Forms,
          profile_id \in {None} \cup { ToString(k) : k \in 1..(MaxRows + 1) } :
          save_profile(t, user, profile_id, form)

SpecF == InitF /\ [][NextF]_vars

(***************************************************************************)
(* Broskis and shared profiles.  The routes are plain `def` functions:     *)
(* the server runs each request in a thread of its pool with a session of  *)
(* its own, so two requests interleave.  The SELECTs of a request run      *)
(* outside any transaction (the driver opens one at the first INSERT,      *)
(* UPDATE or DELETE); its writes and the commit are one step, taken when   *)
(* no other session holds the write lock.  The store gains two tables:     *)
(* broski_requests, rows [id, from_user_id, to_user_id, status], and       *)
(* profile_viewers, pairs <<profile_id, user_id>>.  Profile "1" belongs to *)
(* u1 and profile "2" to u2.                                               *)
(***************************************************************************)
\* the response of a request
Answer(t, user, status) ==
    task' = [task EXCEPT ![t] = [IdleTask EXCEPT !.by = user,
                                                 !.error = status]]

\* auth.get_broskis: the other side of every accepted request of the user
get_broskis(requests, user) ==
    { IF req.from_user_id = user THEN req.to_user_id ELSE req.from_user_id :
        req \in { r \in requests :
                    /\ r.status = "accepted"
                    /\ user \in {r.from_user_id, r.to_user_id} } }

\* send_broski_request up to db.add(req)
RequestRead(t, user, target) ==
    /\ task[t].pc = "idle"
    /\ IF \/ target = user
          \* a row between the two users, whoever asked
          \/ \E r \in db.broski_requests :
                <<r.from_user_id, r.to_user_id>>
                   \in {<<user, target>>, <<target, user>>}
       THEN Answer(t, user, "error")
       ELSE task' = [task EXCEPT ![t] = [IdleTask EXCEPT !.pc = "request",
                                                         !.by = user,
                                                         !.origin = target]]
    /\ UNCHANGED <<now, db, wdb, lock, queue>>

\* db.add(req); db.commit()
RequestWrite(t) ==
    /\ task[t].pc = "request"
    /\ lock = None
    /\ db' = [db EXCEPT !.broski_requests =
                 @ \cup {[id |-> NextId(@), from_user_id |-> task[t].by,
                          to_user_id |-> task[t].origin,
                          status |-> "pending"]}]
    /\ wdb' = db'
    /\ Answer(t, task[t].by, "303")
    /\ UNCHANGED <<now, lock, queue>>

\* accept_broski_request and decline_broski_request up to the write
AnswerRead(t, user, request_id, what) ==
    /\ task[t].pc = "idle"
    /\ IF \E r \in db.broski_requests :
             r.id = request_id /\ r.to_user_id = user /\ r.status = "pending"
       THEN task' = [task EXCEPT ![t] = [IdleTask EXCEPT !.pc = what,
                                                         !.by = user,
                                                         !.threshold = request_id]]
       ELSE Answer(t, user, "404")
    /\ UNCHANGED <<now, db, wdb, lock, queue>>

\* req.status = "accepted"; db.commit(): the UPDATE of a row that is gone
\* matches nothing and the flush raises
AcceptWrite(t) ==
    /\ task[t].pc = "accept"
    /\ lock = None
    /\ IF \E r \in db.broski_requests : r.id = task[t].threshold
       THEN /\ db' = [db EXCEPT !.broski_requests =
                        { IF r.id = task[t].threshold
                          THEN [r EXCEPT !.status = "accepted"] ELSE r :
                            r \in @ }]
            /\ Answer(t, task[t].by, "303")
       ELSE /\ db' = db
            /\ Answer(t, task[t].by, "500")
    /\ wdb' = db'
    /\ UNCHANGED <<now, lock, queue>>

\* db.delete(req); db.commit()
DeclineWrite(t) ==
    /\ task[t].pc = "decline"
    /\ lock = None
    /\ db' = [db EXCEPT !.broski_requests =
                 { r \in @ : r.id # task[t].threshold }]
    /\ wdb' = db'
    /\ Answer(t, task[t].by, "303")
    /\ UNCHANGED <<now, lock, queue>>

\* remove_broski up to db.delete(req): the request found, and the viewer
\* rows the two loops take out of the collections they loaded
RemoveRead(t, user, broski_id) ==
    /\ task[t].pc = "idle"
    /\ LET found == { r \in db.broski_requests :
                        /\ <<r.from_user_id, r.to_user_id>>
                              \in {<<user, broski_id>>, <<broski_id, user>>}
                        /\ r.status = "accepted" }
           mine == { x \in db.profile_viewers :
                       db.profiles[x[1]].user_id = user /\ x[2] = broski_id }
           theirs == { x \in db.profile_viewers :
                         db.profiles[x[1]].user_id = broski_id /\ x[2] = user }
       IN IF found = {}
          THEN Answer(t, user, "404")
          ELSE \E req \in found :
                 task' = [task EXCEPT ![t] = [IdleTask EXCEPT
                                                !.pc = "remove",
                                                !.by = user,
                                                !.origin = broski_id,
                                                !.threshold = req.id,
                                                !.dests = mine \cup theirs]]
    /\ UNCHANGED <<now, db, wdb, lock, queue>>

\* the flush and the commit of remove_broski: a viewer row that is gone
\* makes the DELETE on the association table raise
RemoveWrite(t) ==
    /\ task[t].pc = "remove"
    /\ lock = None
    /\ IF task[t].dests \subseteq db.profile_viewers
       THEN /\ db' = [db EXCEPT
                        !.profile_viewers = @ \ task[t].dests,
                        !.broski_requests =
                           { r \in @ : r.id # task[t].threshold }]
            /\ Answer(t, task[t].by, "303")
       ELSE /\ db' = db
            /\ Answer(t, task[t].by, "500")
    /\ wdb' = db'
    /\ UNCHANGED <<now, lock, queue>>

\* share_profile up to profile.viewers.append(target)
ShareRead(t, user, pid, share_user_id) ==
    /\ task[t].pc = "idle"
    /\ IF db.profiles[pid].user_id # user
       THEN Answer(t, user, "error")
       ELSE IF share_user_id = user
       THEN Answer(t, user, "error")
       ELSE IF share_user_id \notin get_broskis(db.broski_requests, user)
       THEN Answer(t, user, "error")
       ELSE IF <<pid, share_user_id>> \in db.profile_viewers
       THEN Answer(t, user, "303")
       ELSE task' = [task EXCEPT ![t] = [IdleTask EXCEPT !.pc = "share",
                                                         !.by = user,
                                                         !.pid = pid,
                                                         !.origin = share_user_id]]
    /\ UNCHANGED <<now, db, wdb, lock, queue>>

\* the INSERT into profile_viewers and the commit; the pair is the
\* primary key
ShareWrite(t) ==
    /\ task[t].pc = "share"
    /\ lock = None
    /\ IF <<task[t].pid, task[t].origin>> \in db.profile_viewers
       THEN /\ db' = db
            /\ Answer(t, task[t].by, "500")
       ELSE /\ db' = [db EXCEPT !.profile_viewers =
                        @ \cup {<<task[t].pid, task[t].origin>>}]
            /\ Answer(t, task[t].by, "303")
    /\ wdb' = db'
    /\ UNCHANGED <<now, lock, queue>>

\* unshare_profile up to profile.viewers.remove(target)
UnshareRead(t, user, pid, unshare_user_id) ==
    /\ task[t].pc = "idle"
    /\ IF db.profiles[pid].user_id # user
       THEN Answer(t, user, "404")
       ELSE IF <<pid, unshare_user_id>> \notin db.profile_viewers
       THEN Answer(t, user, "303")
       ELSE task' = [task EXCEPT ![t] = [IdleTask EXCEPT !.pc = "unshare",
                                                         !.by = user,
                                                         !.pid = pid,
                                                         !.origin = unshare_user_id]]
    /\ UNCHANGED <<now, db, wdb, lock, queue>>

\* the DELETE from profile_viewers and the commit
UnshareWrite(t) ==
    /\ task[t].pc = "unshare"
    /\ lock = None
    /\ IF <<task[t].pid, task[t].origin>> \in db.profile_viewers
       THEN /\ db' = [db EXCEPT !.profile_viewers =
                        @ \ {<<task[t].pid, task[t].origin>>}]
            /\ Answer(t, task[t].by, "303")
       ELSE /\ db' = db
            /\ Answer(t, task[t].by, "500")
    /\ wdb' = db'
    /\ UNCHANGED <<now, lock, queue>>

InitB ==
    /\ now = 0
    /\ db = [flights |-> {}, deals |-> {}, scan_log |-> {},
             profiles |-> [p \in {"1", "2"} |->
                             [user_id |-> IF p = "1" THEN "u1" ELSE "u2",
                              is_active |-> TRUE, never_updated |-> FALSE,
                              updated_at |-> 0]],
             broski_requests |-> {},
             profile_viewers |-> {}]
    /\ wdb = db
    /\ lock = None
    /\ task = [t \in {"A", "B"} |-> IdleTask]
    /\ queue = <<>>

NextB ==
    \/ \E t \in Tasks, user \in Users, target \in Users :
          RequestRead(t, user, target)
    \/ \E t \in Tasks : RequestWrite(t)
    \/ \E t \in Tasks, user \in Users,
          r \in db.broski_requests, what \in {"accept", "decline"} :
          AnswerRead(t, user, r.id, what)
    \/ \E t \in Tasks : AcceptWrite(t)
    \/ \E t \in Tasks : DeclineWrite(t)
    \/ \E t \in Tasks, user \in Users, broski_id \in Users :
          RemoveRead(t, user, broski_id)
    \/ \E t \in Tasks : RemoveWrite(t)
    \/ \E t \in Tasks, user \in Users, pid \in Profiles,
          share_user_id \in Users :
          ShareRead(t, user, pid, share_user_id)
    \/ \E t \in Tasks : ShareWrite(t)
    \/ \E t \in Tasks, user \in Users, pid \in Profiles,
          unshare_user_id \in Users :
          UnshareRead(t, user, pid, unshare_user_id)
    \/ \E t \in Tasks : UnshareWrite(t)

SpecB == InitB /\ [][NextB]_vars

TypeOK ==
    /\ now \in 0..MaxTime
    /\ Len(queue) <= Len(ProfileOrder)
    /\ lock \in Tasks \cup {None}
    /\ lock = None => wdb = db

(***************************************************************************)
(* Properties.                                                             *)
(***************************************************************************)
\* C1, as stated: when the matcher run of a profile has flushed and pruned,
\* no deal of the profile is older than match_start, every deal of the
\* profile whose (outbound, inbound) pair was not re-matched in the run is
\* gone, and every re-matched deal is still there.
C1_AsStated ==
    [][\A t \in Tasks :
         (task[t].pc = "match_flush" /\ task'[t].pc = "notify") =>
           LET p == task[t].pid
               before == { d \in View(t).deals : d.profile_id = p }
               after == { d \in wdb'.deals : d.profile_id = p }
           IN /\ \A d \in after : d.updated_at >= task[t].match_start
              /\ \A d \in before :
                   (~ \E op \in task[t].pending :
                        /\ op.outbound_flight_id = d.outbound_flight_id
                        /\ op.inbound_flight_id = d.inbound_flight_id)
                     => ~ \E e \in after : e.id = d.id
              /\ \A d \in before :
                   (\E op \in task[t].pending :
                        op.kind = "update" /\ op.id = d.id)
                     => \E e \in after : e.id = d.id]_vars

\* C1, amended: when the matcher run of a profile has flushed and pruned,
\* no deal of the profile is older than match_start; a deal of the profile
\* that was not re-matched is gone when its updated_at was earlier than
\* match_start (a deal an overlapping run of the same profile wrote at or
\* after match_start stays); every re-matched deal is still there; the
\* deals of the other profiles are untouched.
C1_Prune ==
    [][\A t \in Tasks :
         (task[t].pc = "match_flush" /\ task'[t].pc = "notify") =>
           LET p == task[t].pid
               before == { d \in View(t).deals : d.profile_id = p }
               after == { d \in wdb'.deals : d.profile_id = p }
               refreshed(d) == \E op \in task[t].pending :
                                  op.kind = "update" /\ op.id = d.id
           IN /\ \A d \in after : d.updated_at >= task[t].match_start
              /\ \A d \in before :
                   (~ refreshed(d) /\ d.updated_at < task[t].match_start)
                     => ~ \E e \in after : e.id = d.id
              /\ \A d \in before :
                   (~ refreshed(d) /\ d.updated_at >= task[t].match_start)
                     => d \in after
              /\ \A d \in before :
                   refreshed(d) => \E e \in after : e.id = d.id
              /\ { d \in wdb'.deals : d.profile_id # p }
                   = { d \in View(t).deals : d.profile_id # p }]_vars

\* a matcher run has pruned a committed deal of its profile, and the deals
\* of the profile it leaves are all as recent as match_start
C1_Witness ==
    \E t \in Tasks :
        /\ task[t].pc = "notify"
        /\ lock = t
        /\ \E d \in db.deals :
              /\ d.profile_id = task[t].pid
              /\ ~ \E e \in wdb.deals : e.id = d.id
        /\ \E e \in wdb.deals : e.profile_id = task[t].pid

\* C2: the price the matcher stores for a pair is
\* round((outbound.price + inbound.price) / party_size, 2) per person
C2_PricePerPerson ==
    [][\A t \in Tasks :
         (task[t].pc = "match" /\ task'[t].pc = "match_flush") =>
           \A op \in task'[t].pending :
              \A o, i \in View(t).flights :
                 (o.id = op.outbound_flight_id /\ i.id = op.inbound_flight_id)
                   => LET n == adults(task[t].pid)
                      IN op.total_price_pp
                           = (2 * (o.price + i.price) + n) \div (2 * n)]_vars

\* C3: in every committed state the outbound flight of a deal arrives
\* before its inbound flight leaves
C3_ArrivalBeforeReturn ==
    \A d \in db.deals :
       \A o, i \in db.flights :
          (o.id = d.outbound_flight_id /\ i.id = d.inbound_flight_id)
            => o.arrival_time < i.departure_time

\* C4: at most one deal per (profile, outbound flight, inbound flight)
C4_OneDealPerPair ==
    \A d, e \in db.deals :
       (/\ d.profile_id = e.profile_id
        /\ d.outbound_flight_id = e.outbound_flight_id
        /\ d.inbound_flight_id = e.inbound_flight_id) => d = e

\* C5: the flush of a matcher run leaves, for a re-matched pair whose deal
\* the run found with the same total_price_pp, the row as it was but for
\* updated_at; for one found with a different price, the new price and
\* notified = false; for a pair found without a deal, a new row with
\* notified = false
C5_Rematch ==
    [][\A t \in Tasks :
         (task[t].pc = "match_flush" /\ task'[t].pc = "notify") =>
           \A op \in task[t].pending :
              IF op.kind = "update"
              THEN \E d \in View(t).deals : \E e \in wdb'.deals :
                     /\ d.id = op.id
                     /\ e.id = op.id
                     /\ IF op.total_price_pp = op.old_price
                        THEN e = [d EXCEPT !.updated_at = task[t].match_start]
                        ELSE /\ e.total_price_pp = op.total_price_pp
                             /\ e.notified = FALSE
                             /\ e.updated_at = task[t].match_start
              ELSE \E e \in wdb'.deals :
                     /\ ~ \E d \in View(t).deals : d.id = e.id
                     /\ e.profile_id = task[t].pid
                     /\ e.outbound_flight_id = op.outbound_flight_id
                     /\ e.inbound_flight_id = op.inbound_flight_id
                     /\ e.total_price_pp = op.total_price_pp
                     /\ e.notified = FALSE
                     /\ e.updated_at = task[t].match_start]_vars

\* a run has re-matched a notified deal at another price: the row carries
\* the new price and is due for a notification again
C5_Witness ==
    \E t \in Tasks :
        /\ task[t].pc = "notify"
        /\ lock = t
        /\ \E op \in task[t].pending : \E e \in wdb.deals :
              /\ op.kind = "update"
              /\ op.old_notified
              /\ op.total_price_pp # op.old_price
              /\ e.id = op.id
              /\ e.total_price_pp = op.total_price_pp
              /\ ~ e.notified

\* C6: every deal the notifier puts in a push had notified = false when
\* the notifier was called
C6_OnlyNewDealsPushed ==
    \A t \in Tasks : \A push \in task[t].pushed : \A e \in push.deals :
        e[2] = FALSE

\* C7, as stated: when notify_new_deals returns, every deal of the profile
\* has notified = true
C7_AsStated ==
    [][\A t \in Tasks :
         (task[t].pc = "notify" /\ task'[t].pc = "stamp") =>
           \A d \in (IF lock' = t THEN wdb' ELSE db').deals :
              d.profile_id = task[t].pid => d.notified]_vars

\* C7, amended: when notify_new_deals returns for a profile that resolves
\* a push channel, every deal of the profile has notified = true, also
\* when every post failed; for a profile without a channel it returns at
\* once and the deals stay as they were
C7_MarkedWhenChannel ==
    [][\A t \in Tasks :
         (task[t].pc = "notify" /\ task'[t].pc = "stamp") =>
           IF get_ntfy_url(task[t].pid) # None
           THEN \A d \in (IF lock' = t THEN wdb' ELSE db').deals :
                   d.profile_id = task[t].pid => d.notified
           ELSE (IF lock' = t THEN wdb' ELSE db').deals = View(t).deals]_vars

\* every post of a notifier call failed, and the deal that was new on
\* entry is marked all the same
C7_Witness ==
    \E t \in Tasks :
        /\ task[t].pc = "stamp"
        /\ task[t].pushed # {}
        /\ task[t].failed_posts = task[t].pushed
        /\ \E push \in task[t].pushed : \E e \in push.deals :
              /\ e[2] = FALSE
              /\ \E d \in View(t).deals : d.id = e[1] /\ d.notified

\* C8: when an orchestration ends in the except clause, the committed
\* store is what it was (updated_at of the profile and the deals included)
\* and the session keeps nothing pending; no step of a session but the
\* final commit changes the committed store; a profile that is due stays
\* due until an orchestration of that same profile commits; a dispatch of
\* the scheduler starts every due profile or leaves it in the queue of its
\* pool
C8_FailureLeavesProfileDue ==
    [][/\ \A t \in Tasks :
            (task[t].pc = "failed" /\ task'[t].pc = "idle")
              => (db' = db /\ lock' # t /\ (lock = t => wdb' = db))
       /\ \A t \in Tasks :
            (task'[t] # task[t] /\ task[t].pc # "stamp") => db' = db
       /\ \A p \in Profiles :
            (IsDue(p, now) /\ ~ (/\ db'.profiles[p].is_active
                                  /\ \/ db'.profiles[p].never_updated
                                     \/ db'.profiles[p].updated_at
                                          < now' - UpdateIntervalTicks))
              => \E t \in Tasks : /\ task[t].pc = "stamp"
                                  /\ task[t].pid = p
                                  /\ task'[t].pc = "idle"
       /\ (~ SchedulerBusy /\ \E t \in Tasks : task'[t].by = "scheduler")
              => \A p \in due_profiles :
                    \/ \E t \in Tasks : /\ task'[t].pid = p
                                        /\ task'[t].by = "scheduler"
                                        /\ task'[t].pc = "load"
                    \/ \E i \in 1..Len(queue') : queue'[i] = p]_vars

\* an orchestration of a profile has failed; the profile has the
\* updated_at it had and the scheduler has started it again
C8_Witness ==
    \E t, u \in Tasks :
        /\ task[t].by = "log"
        /\ task[t].error # None
        /\ db.profiles[task[t].pid].updated_at = InitDb.profiles[task[t].pid].updated_at
        /\ task[u].by = "scheduler"
        /\ task[u].pid = task[t].pid
        /\ task[u].pc = "load"

\* C9: an error of the upstream source skips that call only; it does not
\* end the orchestration
C9_UpstreamErrorSkipsCall ==
    \A t \in Tasks : ~ (task[t].pc = "failed" /\ task[t].error = "upstream")

\* C10: the flights an orchestration has upserted are in the committed
\* store after the orchestration has failed
C10_HarvestSurvivesFailure ==
    [][\A t \in Tasks :
         (task[t].pc = "failed" /\ task'[t].pc = "idle") =>
           \A f \in View(t).flights : f \in db'.flights]_vars

C12_CooldownBoundary ==
    [][\A t \in Tasks :
         (task[t].pc = "scan" /\ task'[t] # task[t]) =>
           LET origin == Head(task[t].todo)
               started == task[t].threshold + CooldownTicks
               scans == { r.scanned_at : r \in
                            { q \in View(t).scan_log :
                                /\ q.origin = origin
                                /\ q.adults = adults(task[t].pid) } }
           IN /\ (\E s \in scans : started < s + CooldownTicks)
                   => /\ task'[t].pc \in {"scan", "match"}
                      /\ task'[t].todo = Tail(task[t].todo)
                      /\ task'[t].queries = task[t].queries
                      /\ wdb' = wdb /\ db' = db
              /\ (\A s \in scans : started >= s + CooldownTicks)
                   => /\ task'[t].pc = "fetch_out"
                      /\ task'[t].origin = origin]_vars

\* a harvest that started more than a cooldown after the last scan of the
\* pair is about to query the upstream source
C12_Witness ==
    \E t \in Tasks :
       /\ task[t].pc = "fetch_out"
       /\ \E r \in View(t).scan_log :
            /\ r.origin = task[t].origin
            /\ r.adults = adults(task[t].pid)
            /\ r.scanned_at + CooldownTicks < task[t].threshold + CooldownTicks

\* C13: when a harvest appends the scan-log entry of a pair, it has issued
\* the outbound query of the origin once, after it only return queries to
\* that origin, exactly one for every destination of the outbound result
\* and none from another airport; the entry is one row for the pair, and
\* no other step of the harvest adds a scan-log row
C13_HarvestOrder ==
    [][\A t \in Tasks :
         (task'[t] # task[t]) =>
           IF task[t].pc = "scanlog"
           THEN LET q == task[t].queries
                    o == task[t].origin
                    n == adults(task[t].pid)
                    started == task[t].threshold + CooldownTicks
                    out == { k \in 1..Len(q) : q[k] = <<o, None>> }
                    found == { f.destination : f \in
                                 { e \in View(t).flights :
                                     /\ e.origin = o
                                     /\ e.adults = n
                                     /\ e.updated_at >= started } }
                IN /\ Cardinality(out) = 1
                   /\ \A k \in out : \A j \in 1..Len(q) :
                         /\ q[j][2] = o => j > k
                         /\ j > k => q[j][2] = o /\ q[j][1] \in found
                   /\ \A d \in found :
                         Cardinality({ j \in 1..Len(q) : q[j] = <<d, o>> }) = 1
                   /\ task'[t].queries = q
                   /\ lock' = t
                   /\ \E r \in wdb'.scan_log :
                         /\ r.origin = o /\ r.adults = n
                         /\ r.scanned_at = now
                         /\ r \notin View(t).scan_log
                         /\ wdb'.scan_log = View(t).scan_log \cup {r}
           ELSE (IF lock' = t THEN wdb' ELSE db').scan_log
                   \subseteq View(t).scan_log]_vars

\* a harvest of two origins is about to append the scan-log entry of the
\* second: five queries, three of them return queries
C13_Witness ==
    \E t \in Tasks :
       /\ task[t].pc = "scanlog"
       /\ task[t].origin = "BLQ"
       /\ Len(task[t].queries) = 5

\* C14: an orchestration goes through harvester, matcher, notifier and
\* stamp in that order, one after the other: upstream queries are issued
\* only by the harvester, deals change only in the matcher and the
\* notifier (or are discarded by the rollback), pushes are sent only by
\* the notifier, and updated_at of a profile changes only in the step
\* that follows the notifier of an orchestration of that profile, which
\* commits
C14_StepOrder ==
    [][LET phase(pc) ==
             CASE pc \in {"scan", "fetch_out", "fetch_in", "scanlog"} -> 1
               [] pc \in {"match", "match_flush"} -> 2
               [] pc = "notify" -> 3
               [] pc = "stamp" -> 4
               [] OTHER -> 0
       IN /\ \A t \in Tasks :
               (task'[t] # task[t]) =>
                 LET from == task[t].pc
                     to == task'[t].pc
                     deals_after == (IF lock' = t THEN wdb' ELSE db').deals
                 IN /\ from = "load" => to \in {"scan", "match", "idle"}
                    /\ (phase(from) > 0 /\ to \notin {"idle", "failed"})
                          => phase(to) \in {phase(from), phase(from) + 1}
                    /\ to = "idle" => from \in {"load", "stamp", "failed"}
                    /\ task'[t].queries # task[t].queries
                          => phase(from) = 1 \/ to \in {"idle", "load"}
                    /\ deals_after # View(t).deals
                          => phase(from) \in {2, 3} \/ from = "failed"
                    /\ (task'[t].pushed # task[t].pushed /\ to # "idle")
                          => from = "notify"
          /\ \A p \in Profiles :
               (\/ db'.profiles[p].updated_at # db.profiles[p].updated_at
                \/ wdb'.profiles[p].updated_at # wdb.profiles[p].updated_at)
                 => \E t \in Tasks :
                       /\ task[t].pc = "stamp" /\ task[t].pid = p
                       /\ task[t].error = None
                       /\ task'[t].pc = "idle"
                       /\ db'.profiles[p].updated_at = now
                       /\ db' = wdb' /\ lock' = None]_vars

\* an orchestration that has queried the upstream source and sent a push
\* is about to stamp the profile
C14_Witness ==
    \E t \in Tasks :
       /\ task[t].pc = "stamp"
       /\ task[t].queries # <<>>
       /\ task[t].pushed # {}
       /\ \E d \in View(t).deals : d.profile_id = task[t].pid

\* C15: an orchestration that finds its profile missing or inactive ends
\* at once: it issues no upstream query and leaves the committed store,
\* the working copy of the writer and the lock as they were
C15_InactiveIsNoOp ==
    [][\A t \in Tasks :
         (/\ task[t].pc = "load"
          /\ task'[t] # task[t]
          /\ \/ task[t].pid \notin DOMAIN View(t).profiles
             \/ ~ View(t).profiles[task[t].pid].is_active)
           => /\ task'[t].pc = "idle"
              /\ task'[t].queries = <<>>
              /\ task'[t].pushed = {}
              /\ db' = db /\ wdb' = wdb /\ lock' = lock]_vars

\* an orchestration is about to load a profile that its owner has deleted
\* after flights and deals were stored for it
C15_Witness ==
    \E t \in Tasks :
       /\ task[t].pc = "load"
       /\ ~ db.profiles[task[t].pid].is_active
       /\ \E d \in db.deals : d.profile_id = task[t].pid

\* C16: a step in which the scheduler submits orchestrations is taken when
\* none of an earlier dispatch is left, and it submits exactly the profiles
\* that are active and have no updated_at or one earlier than
\* now - update_interval; a profile stamped at t is not submitted at
\* t + update_interval or before
C16_DispatchIffDue ==
    [][LET held == { task[t].pid : t \in Running(task) }
                     \cup { queue[i] : i \in 1..Len(queue) }
           held_after == { task'[t].pid : t \in Running(task') }
                           \cup { queue'[i] : i \in 1..Len(queue') }
       IN (held_after \ held # {}) =>
            /\ held = {}
            /\ \A p \in Profiles :
                  p \in held_after <=>
                     /\ db.profiles[p].is_active
                     /\ \/ db.profiles[p].never_updated
                        \/ db.profiles[p].updated_at < now - UpdateIntervalTicks
            /\ \A p \in held_after :
                  ~ db.profiles[p].never_updated
                    => now > db.profiles[p].updated_at + UpdateIntervalTicks]_vars

\* a dispatch has submitted a profile that was never stamped and has left
\* out an inactive profile and an active one stamped less than an update
\* interval ago
C16_Witness ==
    /\ \E t \in Tasks : /\ task[t].by = "scheduler"
                         /\ task[t].pid = "Q1"
                         /\ task[t].pc = "load"
    /\ db.profiles["Q1"].never_updated
    /\ ~ db.profiles["Q2"].is_active
    /\ db.profiles["Q3"].is_active
    /\ ~ db.profiles["Q3"].never_updated
    /\ db.profiles["Q3"].updated_at >= now - UpdateIntervalTicks
    /\ \A t \in Tasks : task[t].pid \notin {"Q2", "Q3"}
    /\ \A i \in 1..Len(queue) : queue[i] \notin {"Q2", "Q3"}

C18_BoundedPool ==
    /\ [](Cardinality(Running(task)) <= MAX_WORKERS)
    /\ \A p \in {"Q1", "Q2", "Q3", "Q4"} :
          ((\/ \E i \in 1..Len(queue) : queue[i] = p
            \/ \E t \in Running(task) : task[t].pid = p)
           ~> (/\ \A i \in 1..Len(queue) : queue[i] # p
               /\ \A t \in Running(task) : task[t].pid # p
               /\ ~ IsDue(p, now)))

\* four profiles were due: three orchestrations are running and the
\* fourth profile waits in the queue of the pool
C18_Witness ==
    /\ Cardinality(Running(task)) = MAX_WORKERS
    /\ Len(queue) = 1
    /\ IdleTasks # {}

\* C19: a dispatch begins only when no task of an earlier dispatch is
\* queued or running, and it submits one task for each due profile; so a
\* profile is never held twice by the pool, queued or running
C19_OneTaskPerProfile ==
    [][LET held == { task[t].pid : t \in Running(task) }
                     \cup { queue[i] : i \in 1..Len(queue) }
           held_after == { task'[t].pid : t \in Running(task') }
                           \cup { queue'[i] : i \in 1..Len(queue') }
       IN /\ (held_after \ held # {}) =>
               /\ held = {}
               /\ held_after = due_profiles
          /\ Cardinality(Running(task')) + Len(queue')
                = Cardinality(held_after)]_vars

\* the dispatch is not over: its last task is running, the orchestrations
\* of the other three profiles have committed
C19_Witness ==
    /\ queue = <<>>
    /\ \E t \in Tasks :
          /\ Running(task) = {t}
          /\ task[t].pid = "Q4"
          /\ task[t].pc = "stamp"
    /\ \A p \in {"Q1", "Q2", "Q3"} :
          /\ db.profiles[p].is_active
          /\ ~ db.profiles[p].never_updated
          /\ db.profiles[p].updated_at = now
    /\ IsDue("Q4", now)

\* C20: the commit of a prune leaves no flight with updated_at earlier
\* than now - staleness, no deal whose outbound or inbound flight is not
\* stored, and no scan-log row older than the retention; it deletes
\* nothing else.  The committed store changes in no other step of the
\* prune, and a prune that fails leaves it as it was, with nothing pending
C20_PruneAllOrNothing ==
    [][\A t \in Tasks :
         (task'[t] # task[t]) =>
           IF task[t].pc = "prune_commit" /\ task'[t].error = None
           THEN /\ \A f \in db'.flights :
                     ~ (f.updated_at < now - StalenessTicks)
                /\ \A d \in db'.deals :
                     /\ \E f \in db'.flights : f.id = d.outbound_flight_id
                     /\ \E f \in db'.flights : f.id = d.inbound_flight_id
                /\ \A r \in db'.scan_log :
                     ~ (r.scanned_at < now - ScanLogRetentionTicks)
                /\ \A f \in db.flights \ db'.flights :
                     f.updated_at < now - StalenessTicks
                /\ \A d \in db.deals \ db'.deals :
                     \/ ~ \E f \in db'.flights : f.id = d.outbound_flight_id
                     \/ ~ \E f \in db'.flights : f.id = d.inbound_flight_id
                /\ \A r \in db.scan_log \ db'.scan_log :
                     r.scanned_at < now - ScanLogRetentionTicks
                /\ db'.flights \subseteq db.flights
                /\ db'.deals \subseteq db.deals
                /\ db'.scan_log \subseteq db.scan_log
                /\ db'.profiles = db.profiles
                /\ lock' = None /\ wdb' = db'
           ELSE /\ db' = db
                /\ (task[t].error = None /\ task'[t].error # None)
                     => (lock' = None /\ wdb' = db)]_vars

\* a prune is about to commit: it has deleted a stale flight, a deal on
\* that flight whose other flight is kept, and an old scan-log row
C20_Witness ==
    \E t \in Tasks :
       /\ task[t].pc = "prune_commit"
       /\ wdb.scan_log # db.scan_log
       /\ \E d \in db.deals \ wdb.deals :
            /\ \E f \in db.flights \ wdb.flights : f.id = d.inbound_flight_id
            /\ \E f \in wdb.flights : f.id = d.outbound_flight_id

\* C21: a deal whose outbound or inbound flight is gone is skipped by the
\* notifier: the notification step of an orchestration never fails on it
C21_OrphanSkipped ==
    \A t \in Tasks : ~ (task[t].pc = "failed" /\ task[t].error = "orphan")

\* C22: whatever two harvesters of one pair do, the flight store, committed
\* or in the working copy of the writer, holds one row per fingerprint, and
\* every row is what one upsert of one leg wrote: its columns are those of
\* a single answer of the upstream source, none mixed from two
C22_ConcurrentUpserts ==
    \A store \in {db, wdb} :
       /\ \A f, g \in store.flights : f.id = g.id => f = g
       /\ \A r \in store.flights :
             \E leg \in Offers : r = Row(leg, r.updated_at)

\* two harvesters of (PSA, 2) have both fetched and committed within one
\* cooldown, and the store holds the outbound flight they both upserted
C22_Witness ==
    /\ \E r, q \in db.scan_log :
          /\ r.id # q.id
          /\ r.origin = "PSA" /\ q.origin = "PSA"
          /\ r.adults = 2 /\ q.adults = 2
          /\ r.scanned_at <= q.scanned_at
          /\ q.scanned_at - r.scanned_at < CooldownTicks
    /\ \E f \in db.flights : f.id = "PSA_BCN_104_2"

\* the store with the time of writing left out of every row
StripUpdatedAt(flights) == { [r EXCEPT !.updated_at = 0] : r \in flights }

\* C23: upserting a batch leaves the number of rows unchanged for every leg
\* whose fingerprint is stored and changes only price, updated_at, departure
\* and arrival of that row; every other column of the row and every other
\* row stay as they were; rows are added only for fingerprints not yet
\* stored; upserting the same batch a second time gives the same store,
\* the time of writing apart
C23_UpsertAlgebra ==
    [][\A t \in Tasks :
         (task[t].pc = "upsert" /\ task'[t].pc = "upserted") =>
           LET before == View(t).flights
               after == wdb'.flights
               batch == task[t].api_flights
               fresh == { f \in batch :
                            \A e \in before : e.id # unique_id(f) }
           IN /\ Cardinality(after) = Cardinality(before) + Cardinality(fresh)
              /\ \A f \in batch \ fresh :
                 \A e \in before :
                    e.id = unique_id(f) =>
                      { r \in after : r.id = e.id }
                        = { [e EXCEPT !.price = f.price,
                                      !.updated_at = now,
                                      !.departure_time = f.departure_time,
                                      !.arrival_time = f.arrival_time] }
              /\ \A e \in before :
                    (\A f \in batch : unique_id(f) # e.id) => e \in after
              /\ StripUpdatedAt(bulk_upsert(after, batch, now + 1))
                   = StripUpdatedAt(after)
    ]_vars

C23_Witness ==
    \E t \in Tasks :
       /\ task[t].pc = "upserted"
       /\ \E f \in task[t].api_flights, e \in wdb.flights, o \in db.flights :
             /\ e.id = unique_id(f) /\ o.id = e.id
             /\ e.flight_number # f.flight_number
             /\ o.price # f.price /\ e.price = f.price
             /\ o.updated_at < now /\ e.updated_at = now
       /\ \E o \in db.flights :
             \A f \in task[t].api_flights : unique_id(f) # o.id

\* C24: in every reachable state the id of every Flight row is the digest
\* of the row's own origin, destination, departure and party size; two legs
\* (stored or offered) have the same id exactly when they agree on all four
C24_IdIsFingerprint ==
    LET legs == db.flights \cup wdb.flights
                  \cup UNION { task[t].api_flights : t \in Tasks }
    IN /\ \A store \in {db, wdb} :
             \A r \in store.flights : r.id = unique_id(r)
       /\ \A f, g \in legs :
             unique_id(f) = unique_id(g)
               <=> /\ f.origin = g.origin
                   /\ f.destination = g.destination
                   /\ f.departure_time = g.departure_time
                   /\ f.adults = g.adults

C24_Witness ==
    \E t \in Tasks :
       /\ task[t].pc = "upserted"
       /\ \E r, q \in wdb.flights :
             /\ r.origin = q.origin /\ r.destination = q.destination
             /\ r.departure_time = q.departure_time
             /\ r.adults # q.adults /\ r.id # q.id
             /\ r \notin db.flights
       /\ \E r \in wdb.flights, o \in db.flights :
             r.id = o.id /\ r.updated_at > o.updated_at

\* the deals of profile p in a store
deals_of(deals, p) == { d \in deals : d.profile_id = p }

\* deal d pairs the flights o and i
pairs(d, o, i) == d.outbound_flight_id = o.id /\ d.inbound_flight_id = i.id

\* every predicate of the matcher but the price bound
eligible_but_price(o, i, p) ==
    /\ o.destination = i.origin
    /\ InSeq(o.origin, origins(p)) /\ InSeq(i.destination, origins(p))
    /\ o.adults = adults(p) /\ i.adults = adults(p)
    /\ i.departure_time > o.arrival_time
    /\ destination_allowed(o.destination, p)
    /\ is_valid_match(o, i, strategy_object(p))

\* C27: when a matcher run has flushed and pruned, the profile has no deal
\* on a pair of flights with Out.price + In.price above
\* max_price x party size x 1.25, created now or left by an earlier run,
\* and every pair at or below the bound that meets the other predicates
\* has a deal
C27_BudgetTolerance ==
    [][\A t \in Tasks :
         (task[t].pc = "match_flush" /\ task'[t].pc = "notify") =>
           LET p == task[t].pid
               flights == View(t).flights
               mine == deals_of(wdb'.deals, p)
           IN /\ \A d \in mine : \A o, i \in flights :
                    pairs(d, o, i) =>
                      4 * (o.price + i.price) <= 5 * max_price(p) * adults(p)
              /\ \A o, i \in flights :
                    (/\ eligible_but_price(o, i, p)
                     /\ 4 * (o.price + i.price) <= 5 * max_price(p) * adults(p))
                      => \E d \in mine : pairs(d, o, i)
    ]_vars

C27_Witness ==
    \E t \in Tasks :
       /\ task[t].pc = "notify" /\ task[t].pid = "M1"
       /\ \E d \in db.deals, o, i \in wdb.flights :
             /\ d.profile_id = "M1" /\ pairs(d, o, i)
             /\ o.price + i.price = 5600
             /\ ~ \E e \in wdb.deals : e.profile_id = "M1" /\ pairs(e, o, i)
       /\ \E d \in wdb.deals, o, i \in wdb.flights :
             /\ d.profile_id = "M1" /\ pairs(d, o, i)
             /\ o.price + i.price = 5000
             /\ d.updated_at = task[t].match_start

\* C29: when a matcher run has flushed and pruned for a profile with a
\* non-empty allowed_destinations, every deal of the profile flies out to
\* a destination of that set; with an empty set a pair to any destination
\* that meets the other predicates has a deal
C29_AllowedDestinations ==
    [][\A t \in Tasks :
         (task[t].pc = "match_flush" /\ task'[t].pc = "notify") =>
           LET p == task[t].pid
               flights == View(t).flights
               mine == deals_of(wdb'.deals, p)
           IN IF allowed_destinations(p) # {}
              THEN \A d \in mine :
                     \E o \in flights :
                        /\ o.id = d.outbound_flight_id
                        /\ o.destination \in allowed_destinations(p)
              ELSE \A o, i \in flights :
                     (/\ o.destination = i.origin
                      /\ InSeq(o.origin, origins(p))
                      /\ InSeq(i.destination, origins(p))
                      /\ o.adults = adults(p) /\ i.adults = adults(p)
                      /\ i.departure_time > o.arrival_time
                      /\ within_budget(o, i, p)
                      /\ is_valid_match(o, i, strategy_object(p)))
                       => \E d \in mine : pairs(d, o, i)
    ]_vars

C29_Witness ==
    \E t \in Tasks :
       /\ task[t].pc = "notify" /\ task[t].pid = "M2"
       /\ \E d \in db.deals, o, i \in wdb.flights :
             /\ d.profile_id = "M2" /\ pairs(d, o, i)
             /\ o.destination = "MAD"
             /\ is_valid_match(o, i, strategy_object("M2"))
       /\ ~ \E d \in wdb.deals, o \in wdb.flights :
               /\ d.profile_id = "M2" /\ o.id = d.outbound_flight_id
               /\ o.destination = "MAD"
       /\ \E d \in wdb.deals, o \in wdb.flights :
             /\ d.profile_id = "M2" /\ o.id = d.outbound_flight_id
             /\ o.destination = "BCN"

\* the hours of the day a window (h_lo, h_hi) admits with the tolerance
window_hours(w) ==
    { h \in 0..23 : /\ h >= Max(0, w[1] - HOUR_TOLERANCE)
                     /\ h < Min(24, w[2] + HOUR_TOLERANCE) }

\* C30: of the pairs the query returns, the matcher upserts a deal exactly
\* for those where (1) the difference of the calendar dates of the two
\* departures is in [min_nights, max_nights], (2) the outbound weekday is a
\* key of out_days and the outbound hour is in
\* [max(0, h_lo - tau), min(24, h_hi + tau)) of that key's window, (3) the
\* same for the return against in_days; so an empty out_days or in_days
\* matches nothing, and with min_nights = max_nights = 0 exactly the
\* same-date pairs inside the hour windows match
C30_ValidMatch ==
    [][\A t \in Tasks :
         (task[t].pc = "match" /\ task'[t].pc = "match_flush") =>
           LET p == task[t].pid
               config == strategy_object(p)
               matched(c) == \E op \in task'[t].pending :
                                /\ op.outbound_flight_id = c[1].id
                                /\ op.inbound_flight_id = c[2].id
               day_out(c) == (c[1].departure_time \div 24) % 7
               day_in(c) == (c[2].departure_time \div 24) % 7
               nights(c) == (c[2].departure_time \div 24)
                              - (c[1].departure_time \div 24)
           IN /\ \A c \in candidates(View(t).flights, p) :
                   matched(c) <=>
                     /\ nights(c) \in config.min_nights..config.max_nights
                     /\ day_out(c) \in DOMAIN config.out_days
                     /\ c[1].departure_time % 24
                          \in window_hours(config.out_days[day_out(c)])
                     /\ day_in(c) \in DOMAIN config.in_days
                     /\ c[2].departure_time % 24
                          \in window_hours(config.in_days[day_in(c)])
              /\ (DOMAIN config.out_days = {} \/ DOMAIN config.in_days = {})
                    => task'[t].pending = {}
              /\ (config.min_nights = 0 /\ config.max_nights = 0) =>
                    \A c \in candidates(View(t).flights, p) :
                       matched(c) =>
                         c[1].departure_time \div 24 = c[2].departure_time \div 24
    ]_vars

C30_Witness ==
    \E t \in Tasks :
       /\ task[t].pc = "match_flush" /\ task[t].pid = "M5"
       /\ \E op \in task[t].pending, o, i \in View(t).flights :
             /\ op.outbound_flight_id = o.id /\ op.inbound_flight_id = i.id
             /\ i.departure_time - o.departure_time < 24
             /\ hour(i.departure_time) = 0
       /\ \E op \in task[t].pending, i \in View(t).flights :
             op.inbound_flight_id = i.id /\ hour(i.departure_time) = 23
       /\ \E c \in candidates(View(t).flights, "M5") :
             /\ weekday(c[2].departure_time) = 4
             /\ ~ \E op \in task[t].pending :
                     /\ op.outbound_flight_id = c[1].id
                     /\ op.inbound_flight_id = c[2].id

same_metro(a, b, r) ==
    \/ a = b
    \/ /\ r > 0
       /\ a \in KnownAirports /\ b \in KnownAirports
       /\ haversine_km(a, b) <= r

\* every predicate of the two-pass matcher that does not look at where
\* the return leg departs from or lands
eligible_but_airports(o, i, p) ==
    /\ InSeq(o.origin, origins(p))
    /\ o.adults = adults(p) /\ i.adults = adults(p)
    /\ i.departure_time > o.arrival_time
    /\ within_budget(o, i, p)
    /\ destination_allowed(o.destination, p)
    /\ not_excluded(o.destination, p)
    /\ is_valid_match(o, i, strategy_object(p))

C31_AsStated ==
    [][\A t \in Tasks :
         (task[t].pc = "match" /\ task'[t].pc = "match_flush"
            /\ task[t].pid = "W1") => task'[t].pending = {}
    ]_vars

\* C31, amended: with tolerance tau a window (0, 0) admits exactly the
\* departures at the hours below tau (hour 0 for tau = 1) and rejects
\* every other hour; a window (0, 24) admits every hour 0..23
C31_WindowEdges ==
    [][\A t \in Tasks :
         (task[t].pc = "match" /\ task'[t].pc = "match_flush") =>
           LET outs == { f \in View(t).flights :
                           f.origin = "PSA"
                             /\ \E c \in candidates(View(t).flights, task[t].pid) :
                                   c[1] = f }
               matched(f) == \E op \in task'[t].pending :
                                op.outbound_flight_id = f.id
           IN /\ task[t].pid = "W1" =>
                   \A f \in outs :
                      matched(f) <=> f.departure_time % 24 < HOUR_TOLERANCE
              /\ task[t].pid = "W2" => \A f \in outs : matched(f)
    ]_vars

C31_Witness ==
    \E t \in Tasks :
       /\ task[t].pc = "match_flush" /\ task[t].pid = "W1"
       /\ \E op \in task[t].pending, f \in View(t).flights :
             op.outbound_flight_id = f.id /\ hour(f.departure_time) = 0
       /\ \A h \in 1..23 :
            \E f \in View(t).flights :
               /\ f.origin = "PSA" /\ hour(f.departure_time) = h
               /\ ~ \E op \in task[t].pending : op.outbound_flight_id = f.id

\* C32: a realtime alert run for a profile emits exactly one push per
\* belled destination that has a new deal (notified = false on entry),
\* carrying the cheapest deal to that destination, and one summary push
\* exactly when an unbelled destination has a new deal, listing at most
\* the 3 cheapest unbelled destinations
C32_OnePushPerNewDestination ==
    [][\A t \in Tasks :
         (task[t].pc = "notify" /\ task'[t].pc = "stamp"
            /\ get_ntfy_url(task[t].pid) # None) =>
           LET p == task[t].pid
               v == View(t)
               mine == deals_of(v.deals, p)
               dest_of(d) == flight_of(v.flights, d.outbound_flight_id).destination
               fresh == { dest_of(d) : d \in { e \in mine : ~ e.notified } }
               pushes == task'[t].pushed
               dest_pushes == { push \in pushes : push.kind = "dest" }
               summaries == { push \in pushes : push.kind = "summary" }
           IN /\ { push.dest : push \in dest_pushes }
                   = fresh \cap notify_destinations(p)
              /\ \A a, b \in dest_pushes : a.dest = b.dest => a = b
              /\ \A push \in dest_pushes : \A e \in push.deals :
                    \E d \in mine :
                       /\ d.id = e[1] /\ dest_of(d) = push.dest
                       /\ \A o \in mine : dest_of(o) = push.dest
                                              => d.total_price_pp <= o.total_price_pp
              /\ Cardinality(summaries)
                   = (IF fresh \ notify_destinations(p) # {} THEN 1 ELSE 0)
              /\ \A push \in summaries : Cardinality(push.deals) <= 3
    ]_vars

\* C33: a post that fails does not fail the orchestration: the notifier
\* still attempts a push for every belled destination and the summary,
\* marks every deal of the profile notified and returns; the stamp and the
\* commit can then be taken, and when they are the committed store holds
\* the marked deals and the profile stamped with the current time
C33_PostFailureTolerated ==
    /\ [](\A t \in Tasks :
            (task[t].pc = "stamp" /\ task[t].failed_posts # {})
              => ENABLED Stamp(t))
    /\ [][\A t \in Tasks :
            /\ (task[t].pc = "notify" /\ task'[t].failed_posts # {}) =>
                  LET p == task[t].pid
                      mine == deals_of(View(t).deals, p)
                      dests == { flight_of(View(t).flights,
                                           d.outbound_flight_id).destination :
                                   d \in mine }
                  IN /\ task'[t].pc = "stamp" /\ task'[t].error = None
                     /\ task'[t].failed_posts \subseteq task'[t].pushed
                     /\ { push.dest : push \in { q \in task'[t].pushed :
                                                    q.kind = "dest" } }
                          = dests \cap notify_destinations(p)
                     /\ (dests \ notify_destinations(p) # {})
                          => \E push \in task'[t].pushed : push.kind = "summary"
                     /\ \A d \in deals_of(wdb'.deals, p) : d.notified
                     /\ lock' = t
            /\ (task[t].pc = "stamp" /\ task[t].failed_posts # {}
                  /\ task'[t] # task[t]) =>
                  LET p == task[t].pid
                  IN /\ task'[t].pc = "idle" /\ task'[t].error = None
                     /\ lock' = None
                     /\ db'.profiles[p].updated_at = now
                     /\ ~ db'.profiles[p].never_updated
                     /\ db'.deals = wdb.deals
                     /\ \A d \in deals_of(db'.deals, p) : d.notified
       ]_vars

C33_Witness ==
    \E t \in Tasks :
       /\ task[t].pc = "stamp"
       /\ task[t].failed_posts # {}
       /\ task[t].pushed \ task[t].failed_posts # {}
       /\ \E push \in task[t].failed_posts : \E e \in push.deals :
             /\ e[2] = FALSE
             /\ \E d \in wdb.deals : d.id = e[1] /\ d.notified
             /\ ~ \E d \in db.deals : d.id = e[1] /\ d.notified

unknown_weekday(k) ==
    IF k.is_text
    THEN \/ k.text \in {"x", "4.5", ""}
         \/ \E i \in -9..9 : k.text = ToString(i) /\ i \notin 0..6
    ELSE k.int \notin 0..6

\* the strategies the claim calls invalid
invalid_strategy(d) ==
    \/ \E n \in 1..Len(d.out_days) : unknown_weekday(d.out_days[n][1])
    \/ \E n \in 1..Len(d.in_days) : unknown_weekday(d.in_days[n][1])
    \/ d.min_nights > d.max_nights
    \/ d.min_nights < 0
    \/ d.max_nights < 0

C36_StoredWindowsInRange ==
    \A p \in DOMAIN db.profiles :
       LET config == StrategyConfig(db.profiles[p].strategy_object.value)
           in_range(w) == 0 <= w[1] /\ w[1] <= w[2] /\ w[2] <= 24
       IN /\ config.ok
          /\ \A day \in DOMAIN config.out_days : in_range(config.out_days[day])
          /\ \A day \in DOMAIN config.in_days : in_range(config.in_days[day])

\* C37: every stored profile has at least one origin, a party of at least
\* one and a budget above zero, whatever saves were made
C37_StoredProfileInvariant ==
    \A p \in DOMAIN db.profiles :
       /\ db.profiles[p].origins # <<>>
       /\ db.profiles[p].adults >= 1
       /\ db.profiles[p].max_price > 0

\* C38: for all airport codes a and b and every radius, the metro area of
\* a holds a, are_nearby(a, b) and are_nearby(b, a) agree, and the metro
\* area of a is {a} when the radius is zero or negative or the table does
\* not hold a
C38_MetroAreaAlgebra ==
    \A t \in Tasks :
       task[t].by = "airports" =>
          LET a == task[t].origin
              b == task[t].queries[1]
              answer(x, y) == { e.nearby : e \in { f \in task[t].pending :
                                                     f.a = x /\ f.b = y } }
          IN /\ a \in task[t].dests
             /\ Cardinality(answer(a, b)) = 1
             /\ answer(a, b) = answer(b, a)
             /\ (task[t].radius <= 0 \/ a \notin KnownAirports)
                   => task[t].dests = {a}

C38_Witness ==
    \E t \in Tasks :
       /\ task[t].by = "airports"
       /\ task[t].origin = "GRO" /\ task[t].queries[1] = "BCN"
       /\ task[t].radius = 100
       /\ task[t].dests = {"GRO", "BCN"}
       /\ \A e \in task[t].pending : e.nearby
       /\ Cardinality(task[t].pending) = 2

\* C39: a matcher run for a profile writes deals of that profile only: in
\* the candidate loop, the flush and the prune, and in what the caller
\* then commits, the deals of every other profile, the flight rows, the
\* scan log and the profile rows stay as they were, also when another
\* profile has a deal on the same pair of flights
C39_OwnDealsOnly ==
    [][\A t \in Tasks :
         LET p == task[t].pid
             others(deals) == { d \in deals : d.profile_id # p }
         IN /\ (task[t].pc \in {"match", "match_flush"}
                  /\ task'[t] # task[t]) =>
                  /\ db' = db
                  /\ others(View(t)'.deals) = others(View(t).deals)
                  /\ View(t)'.flights = View(t).flights
                  /\ View(t)'.scan_log = View(t).scan_log
                  /\ View(t)'.profiles = View(t).profiles
                  /\ \A op \in task'[t].pending :
                        /\ op.profile_id = p
                        /\ op.kind = "update"
                             => \E d \in View(t).deals :
                                   d.id = op.id /\ d.profile_id = p
            /\ (task[t].pc = "notify" /\ task'[t].pc = "idle") =>
                  /\ others(db'.deals) = others(db.deals)
                  /\ db'.flights = db.flights
                  /\ db'.scan_log = db.scan_log
                  /\ db'.profiles = db.profiles
      ]_vars

C39_Witness ==
    \E t \in Tasks :
       /\ task[t].pc = "notify"
       /\ lock = t
       /\ \E d \in wdb.deals : \E e \in wdb.deals :
             /\ d.profile_id = task[t].pid
             /\ d \notin db.deals
             /\ e.profile_id # task[t].pid
             /\ e.outbound_flight_id = d.outbound_flight_id
             /\ e.inbound_flight_id = d.inbound_flight_id
       /\ \E d \in db.deals :
             d.profile_id = task[t].pid /\ d \notin wdb.deals

\* C40: in every state the broski and sharing routes reach, every viewer
\* of a profile is an accepted broski of the profile's owner and is not
\* the owner
C40_ViewersAreBroskis ==
    \A x \in db.profile_viewers :
       /\ x[2] # db.profiles[x[1]].user_id
       /\ x[2] \in get_broskis(db.broski_requests, db.profiles[x[1]].user_id)

====
